---- MODULE Spec2Model ----
(***************************************************************************)
(* Model of the document-tracking server (src/server.js): the ingestion    *)
(* handlers, the SQLite tables events / alerts / incidents, the anomaly    *)
(* checks, the query endpoints and the WebSocket fan-out to dashboards.    *)
(*                                                                         *)
(* Every HTTP handler and every WebSocket callback of the server is        *)
(* synchronous (better-sqlite3 is a synchronous driver, ws.send only       *)
(* queues), and Node runs one callback at a time, so one handler is one    *)
(* action.                                                                 *)
(*                                                                         *)
(* Time is counted in seconds (the code counts milliseconds); the clock    *)
(* and every ordinary date are integers.  A date is a record [k, t]:       *)
(* k = "n" for a date whose year is in 0000..9999 (t = seconds since the   *)
(* epoch), k = "future" for a valid date after year 9999, k = "past" for   *)
(* a valid date before year 0, k = "invalid" for an Invalid Date.          *)
(***************************************************************************)
EXTENDS Integers, Sequences, FiniteSets, TLC

VARIABLES events, alerts, incidents, clients, sockets, inbox, now, resp

vars == <<events, alerts, incidents, clients, sockets, inbox, now, resp>>

-----------------------------------------------------------------------------
(* JavaScript / SQL values *)

\* JavaScript undefined: a field the request does not carry.
UNDEF == "undefined"
\* JavaScript null, stored as SQL NULL.
NULL == "null"
\* The number 0 as a JSON value (identifiers and payloads are opaque tokens).
ZERO == "#0"

\* The values JavaScript treats as false in `x || y` and `x ? a : b`.
Falsy(x) == x \in {UNDEF, NULL, "", ZERO}

\* `x || null`
OrNull(x) == IF Falsy(x) THEN NULL ELSE x

\* `x ?? null`
CoalesceNull(x) == IF x \in {UNDEF, NULL} THEN NULL ELSE x

-----------------------------------------------------------------------------
(* Dates *)

\* new Date(n) for an ordinary epoch value n.
DateOf(n) == [k |-> "n", t |-> n]

\* Date.prototype.toISOString: "YYYY-MM-DDTHH:mm:ss.sssZ" for the years
\* 0000..9999, "+YYYYYY-..." after them, "-YYYYYY-..." before them.  The
\* result is the record [pfx, t]: the sign prefix of the text and the instant.
\* (An Invalid Date throws RangeError: callers test IsInvalid first.)
ToISOString(d) ==
    CASE d.k = "n"      -> [pfx |-> "", t |-> d.t]
      [] d.k = "future" -> [pfx |-> "+", t |-> 0]
      [] d.k = "past"   -> [pfx |-> "-", t |-> 0]

IsInvalid(d) == d.k = "invalid"

\* new Date(isoText): parses the three shapes toISOString produces.
ParseISO(s) ==
    CASE s.pfx = ""  -> [k |-> "n", t |-> s.t]
      [] s.pfx = "+" -> [k |-> "future", t |-> 0]
      [] s.pfx = "-" -> [k |-> "past", t |-> 0]

\* Date.prototype.getTime() >= n, for an ordinary n.
TimeAtLeast(d, n) ==
    CASE d.k = "n"      -> d.t >= n
      [] d.k = "future" -> TRUE
      [] d.k = "past"   -> FALSE

\* Date.prototype.getHours(), the server's zone taken as UTC.
GetHours(d) == (d.t \div 3600) % 24

\* Rank of the first character of an ISO text under SQLite's BINARY
\* collation (memcmp): '+' (0x2B) < '-' (0x2D) < '0'..'9' (0x30..0x39).
PfxRank(p) == CASE p = "+" -> 0 [] p = "-" -> 1 [] p = "" -> 2

\* a < b as TEXT.  Two texts of one expanded-year class stand for the same
\* text here (one representative per class).
TextLess(a, b) ==
    \/ PfxRank(a.pfx) < PfxRank(b.pfx)
    \/ a.pfx = "" /\ b.pfx = "" /\ a.t < b.t

\* a is an earlier instant than b.
DateRank(k) == CASE k = "past" -> 0 [] k = "n" -> 1 [] k = "future" -> 2
Earlier(a, b) ==
    \/ DateRank(a.k) < DateRank(b.k)
    \/ a.k = "n" /\ b.k = "n" /\ a.t < b.t

-----------------------------------------------------------------------------
(* Enrichment *)

\* getClientIP: first x-forwarded-for entry, else the socket's address.
GetClientIP(req) ==
    IF ~Falsy(req.xff) THEN req.xff
    ELSE IF ~Falsy(req.remote) THEN req.remote
    ELSE "unknown"

\* geoip.lookup(ip): the addresses the database knows, and the text
\* `${geo.city || 'Unknown'}, ${geo.country || 'Unknown'}` built from its
\* answer (the entry of ip3 has no city).
GeoKnown(ip) == ip \in {"ip1", "ip2", "ip3", "ip4", "ip5"}
GeoText(ip) ==
    CASE ip = "ip1" -> "Paris, FR"
      [] ip = "ip2" -> "Berlin, DE"
      [] ip = "ip3" -> "Unknown, US"
      [] ip = "ip4" -> "Oslo, NO"
      [] ip = "ip5" -> "Lima, PE"

GetLocationFromIP(ip) ==
    IF ip = "unknown" THEN "Unknown Location"
    ELSE IF GeoKnown(ip) THEN GeoText(ip)
    ELSE "Unknown Location"

\* userAgent.includes(w), for the user-agent texts of the model.
UAIncludes(ua, w) ==
    w \in (CASE ua = "Mozilla Chrome Safari" -> {"Chrome", "Safari"}
             [] ua = "Mozilla Safari"        -> {"Safari"}
             [] ua = "Mozilla Firefox"       -> {"Firefox"}
             [] ua = "Mozilla Edge"          -> {"Edge"}
             [] OTHER                        -> {})

ParseBrowserInfo(ua) ==
    IF Falsy(ua) THEN "Unknown"
    ELSE IF UAIncludes(ua, "Chrome") THEN "Chrome"
    ELSE IF UAIncludes(ua, "Safari") /\ ~UAIncludes(ua, "Chrome") THEN "Safari"
    ELSE IF UAIncludes(ua, "Firefox") THEN "Firefox"
    ELSE IF UAIncludes(ua, "Edge") THEN "Edge"
    ELSE "Unknown"

-----------------------------------------------------------------------------
(* The store: saveEvent, saveAlert, saveIncident *)

\* crypto.randomUUID(): a fresh identifier; the n-th row of a table gets n.
NewEventId == Len(events) + 1
NewAlertId == Len(alerts) + 1
NewIncidentId == Len(incidents) + 1

\* The record saveEvent builds from the handler's object (the handlers always
\* pass an id).
SaveEventRecord(event) ==
    [id          |-> event.id,
     type        |-> event.type,
     documentId  |-> event.documentId,
     recipientId |-> event.recipientId,
     action      |-> OrNull(event.action),
     pageNumber  |-> CoalesceNull(event.pageNumber),
     timeSpent   |-> CoalesceNull(event.timeSpent),
     timestamp   |-> event.timestamp,
     ipAddress   |-> OrNull(event.ipAddress),
     location    |-> OrNull(event.location),
     device      |-> OrNull(event.device),
     userAgent   |-> OrNull(event.userAgent),
     risk        |-> OrNull(event.risk),
     watermarkId |-> OrNull(event.watermarkId),
     forwardedTo |-> OrNull(event.forwardedTo),
     unauthorized |-> IF ~Falsy(event.unauthorized) THEN 1 ELSE 0]

\* insertEventStmt.run(record) throws: documentId and recipientId are NOT
\* NULL columns and undefined cannot be bound; fault = "event" is a failure
\* of the database itself (I/O error, locked file).
EventInsertFails(record, fault) ==
    \/ fault = "event"
    \/ record.documentId \in {UNDEF, NULL}
    \/ record.recipientId \in {UNDEF, NULL}

\* A store that replaces the row of the same document and recipient
\* (INSERT OR REPLACE on a (documentId, recipientId) key) instead of adding one.
InsertEventReplacing(table, record) ==
    Append(SelectSeq(table, LAMBDA e : ~(e.documentId = record.documentId
                                         /\ e.recipientId = record.recipientId)),
           record)

\* INSERT INTO events: the table after the insert (the columns city, country
\* and createdAt, which no statement of the server reads, are left out).
InsertEvent(table, record) == Append(table, record)

\* The record saveAlert builds (eventId is a UUID, never falsy).
SaveAlertRecord(alert) ==
    [id          |-> alert.id,
     type        |-> alert.type,
     severity    |-> alert.severity,
     eventId     |-> alert.eventId,
     documentId  |-> OrNull(alert.documentId),
     recipientId |-> OrNull(alert.recipientId),
     requiresAction |-> IF alert.requiresAction # 0 THEN 1 ELSE 0]

\* The alerts row: the record and the column default createdAt
\* CURRENT_TIMESTAMP (whole seconds).
AlertRow(record, clock) ==
    [id |-> record.id, type |-> record.type, severity |-> record.severity,
     eventId |-> record.eventId, documentId |-> record.documentId,
     recipientId |-> record.recipientId,
     requiresAction |-> record.requiresAction, createdAt |-> clock]

InsertAlert(table, record, clock) == Append(table, AlertRow(record, clock))

\* insertAlertStmt.run(record) throws: the FOREIGN KEY (eventId) has no row
\* in `stored` (better-sqlite3 enforces foreign keys), or the database fails.
AlertInsertFails(record, stored, fault) ==
    \/ fault = "alert"
    \/ \A i \in DOMAIN stored : stored[i].id # record.eventId

\* The record saveIncident builds.
SaveIncidentRecord(incident) ==
    [id            |-> incident.id,
     type          |-> incident.type,
     severity      |-> incident.severity,
     documentId    |-> incident.documentId,
     fromRecipient |-> OrNull(incident.fromRecipient),
     toRecipient   |-> OrNull(incident.toRecipient),
     status        |-> IF Falsy(incident.status) THEN "open" ELSE incident.status,
     timestamp     |-> incident.timestamp]

\* An insert that closes the incidents stored before.
InsertIncidentClosingOlder(table, record) ==
    Append([i \in DOMAIN table |-> [table[i] EXCEPT !.status = "closed"]], record)

InsertIncident(table, record) == Append(table, record)

\* insertIncidentStmt.run(record) throws: only when the database fails (the
\* documentId was already bound by saveEvent).
IncidentInsertFails(record, fault) == fault = "incident"

-----------------------------------------------------------------------------
(* checkForAnomalies *)

UnusualLocationMin == 3
NightEndHour == 6
NightStartHour == 22
RapidWindow == 60
RapidMax == 5

\* SELECT * FROM events WHERE recipientId = ?
RecipientEvents(table, recipientId) ==
    SelectSeq(table, LAMBDA e : e.recipientId = recipientId)

\* [...new Set(recipientEvents.map(e => e.location).filter(Boolean))]
LocationsOf(rows) ==
    {rows[i].location : i \in DOMAIN rows} \ {UNDEF, NULL, "", ZERO}

\* A check 1 that does not look whether the location was seen before.
UnusualLocationWhateverTheLocation(event, rows) ==
    /\ Cardinality(LocationsOf(rows)) > UnusualLocationMin
    /\ ~Falsy(event.location)

\* Check 1
UnusualLocation(event, rows) ==
    /\ Cardinality(LocationsOf(rows)) > UnusualLocationMin
    /\ ~Falsy(event.location)
    /\ event.location \notin LocationsOf(rows)

\* Check 2
UnusualTime(event) ==
    LET hour == GetHours(ParseISO(event.timestamp))
    IN  hour < NightEndHour \/ hour > NightStartHour

\* Check 3: recentEvents
RecentEvents(rows, clock) ==
    SelectSeq(rows, LAMBDA e : TimeAtLeast(ParseISO(e.timestamp), clock - RapidWindow))

RapidAccess(rows, clock) == Len(RecentEvents(rows, clock)) > RapidMax

\* The anomalies array, in push order.
Anomalies(event, table, clock) ==
    LET rows == RecipientEvents(table, event.recipientId)
    IN  (IF UnusualLocation(event, rows)
            THEN <<[type |-> "UNUSUAL_LOCATION", severity |-> "medium"]>> ELSE <<>>)
        \o (IF UnusualTime(event)
            THEN <<[type |-> "UNUSUAL_TIME", severity |-> "low"]>> ELSE <<>>)
        \o (IF RapidAccess(rows, clock)
            THEN <<[type |-> "RAPID_ACCESS", severity |-> "high"]>> ELSE <<>>)

-----------------------------------------------------------------------------
(* broadcastToAdmins *)

\* A broadcast that stops after the first open connection.
BroadcastToOne(boxes, message) ==
    [c \in DOMAIN boxes |->
        IF sockets[c] = "OPEN" /\ c = CHOOSE x \in DOMAIN boxes : sockets[x] = "OPEN"
        THEN Append(boxes[c], message) ELSE boxes[c]]

\* A broadcast that puts the message ahead of those sent before it.
BroadcastPrepending(boxes, message) ==
    [c \in DOMAIN boxes |->
        IF sockets[c] = "OPEN" THEN <<message>> \o boxes[c] ELSE boxes[c]]

\* A broadcast to the registered set, whatever the state of the sockets.
BroadcastToRegistered(boxes, message) ==
    [c \in DOMAIN boxes |->
        IF c \in clients THEN Append(boxes[c], message) ELSE boxes[c]]

\* A broadcast that reaches no connection.
BroadcastToNone(boxes, message) == boxes

\* wss.clients.forEach(client => readyState === OPEN && client.send(message))
Broadcast(boxes, message) ==
    [c \in DOMAIN boxes |->
        IF sockets[c] = "OPEN" THEN Append(boxes[c], message) ELSE boxes[c]]

\* A detector that publishes its result also when it found nothing.
CheckForAnomaliesAlwaysPublishing(boxes, event, table, clock) ==
    Broadcast(boxes, [type |-> "ANOMALY_DETECTED",
                      anomalies |-> Anomalies(event, table, clock), event |-> event])

\* checkForAnomalies(event, recipientId): the inboxes after it ran against
\* the table `table`.
CheckForAnomalies(boxes, event, table, clock) ==
    LET anomalies == Anomalies(event, table, clock)
    IN  IF Len(anomalies) > 0
        THEN Broadcast(boxes, [type |-> "ANOMALY_DETECTED",
                               anomalies |-> anomalies, event |-> event])
        ELSE boxes

-----------------------------------------------------------------------------
(* Requests and responses *)

\* The summary figures of an answer that is not a tracking summary.
NoSummary ==
    [totalEvents |-> 0, incidents |-> 0, riskLevel |-> UNDEF,
     lastActivity |-> NULL, recipients |-> {}, locations |-> {}]

\* The stats of an answer that is not a health report.
NoStats ==
    [totalEvents |-> 0, totalAlerts |-> 0, totalIncidents |-> 0,
     connectedAdmins |-> 0]

\* What a handler answered: the operation, the HTTP status (500 is Express's
\* answer to a handler that threw), the id of the event it stored (0: none),
\* how often it called checkForAnomalies and with what result, and the rows
\* a query returned (arg: the document a query asked for; summary: the
\* figures of a tracking summary; total: the count a listing reports; stats:
\* the counts of a health report).
Response(op, status, eventId, checks, anomalies, rows) ==
    [op |-> op, arg |-> UNDEF, status |-> status, eventId |-> eventId,
     checks |-> checks, anomalies |-> anomalies, rows |-> rows,
     summary |-> NoSummary, total |-> 0, stats |-> NoStats]

Failed(op) == Response(op, 500, 0, 0, <<>>, <<>>)

\* The object every tracking handler passes to saveEvent, before the fields
\* of its own type are set.
BaseEvent(req, type) ==
    [id          |-> NewEventId,
     type        |-> type,
     documentId  |-> req.documentId,
     recipientId |-> req.recipientId,
     action      |-> UNDEF,
     pageNumber  |-> UNDEF,
     timeSpent   |-> UNDEF,
     timestamp   |-> ToISOString(DateOf(now)),
     ipAddress   |-> GetClientIP(req),
     location    |-> GetLocationFromIP(GetClientIP(req)),
     device      |-> ParseBrowserInfo(req.ua),
     userAgent   |-> req.ua,
     risk        |-> UNDEF,
     watermarkId |-> UNDEF,
     forwardedTo |-> UNDEF,
     unauthorized |-> UNDEF]

\* A handler whose saveEvent threw: nothing is stored or sent.
Rejected(op) ==
    /\ resp' = Failed(op)
    /\ UNCHANGED <<events, alerts, incidents, clients, sockets, inbox, now>>

-----------------------------------------------------------------------------
(* GET /api/track/pixel/:documentId/:recipientId *)

\* parseInt(ts) || Date.now(), then new Date(...).  req.ts is [k, t]:
\* "absent" (no ts), "nan" (not a number), "num" (the number t of ordinary
\* size), "future" / "past" (a number beyond year 9999 / before year 0),
\* "overflow" (a number beyond the 8.64e15 ms a Date can hold).
PixelDate(ts, clock) ==
    CASE ts.k \in {"absent", "nan"} -> DateOf(clock)
      [] ts.k = "num" -> IF ts.t = 0 THEN DateOf(clock) ELSE DateOf(ts.t)
      [] ts.k = "future" -> [k |-> "future", t |-> 0]
      [] ts.k = "past" -> [k |-> "past", t |-> 0]
      [] ts.k = "overflow" -> [k |-> "invalid", t |-> 0]

PixelEvent(req) ==
    [BaseEvent(req, "pixel_beacon") EXCEPT
        !.action = IF Falsy(req.action) THEN "viewed" ELSE req.action,
        !.timestamp = ToISOString(PixelDate(req.ts, now))]

Pixel(req) ==
    IF IsInvalid(PixelDate(req.ts, now))
    THEN Rejected("pixel")
    ELSE LET event == SaveEventRecord(PixelEvent(req))
         IN  IF EventInsertFails(event, req.fault)
             THEN Rejected("pixel")
             ELSE /\ events' = InsertEvent(events, event)
                  /\ inbox' = Broadcast(inbox, [type |-> "TRACKING_EVENT", event |-> event])
                  /\ resp' = Response("pixel", 200, event.id, 0, <<>>, <<>>)
                  /\ UNCHANGED <<alerts, incidents, clients, sockets, now>>

-----------------------------------------------------------------------------
(* POST /api/track/document-open *)

OpenEvent(req) ==
    [BaseEvent(req, "document_opened") EXCEPT
        !.watermarkId = req.watermarkId, !.risk = "low"]

\* A document-open handler that evaluates the rules on the history as it
\* was before its own event was stored.
DocumentOpenCheckingBeforeSave(req) ==
    LET event == SaveEventRecord(OpenEvent(req))
    IN  IF EventInsertFails(event, req.fault)
        THEN Rejected("document-open")
        ELSE /\ events' = InsertEvent(events, event)
             /\ inbox' = CheckForAnomalies(
                            Broadcast(inbox, [type |-> "DOCUMENT_OPENED", event |-> event]),
                            event, events, now)
             /\ resp' = Response("document-open", 200, event.id, 1,
                                 Anomalies(event, events, now), <<>>)
             /\ UNCHANGED <<alerts, incidents, clients, sockets, now>>

\* A document-open handler that stores an alert when the detector has
\* findings.
DocumentOpenRaisingAlert(req) ==
    LET event == SaveEventRecord(OpenEvent(req))
        alert == SaveAlertRecord([id |-> NewAlertId, type |-> "ANOMALY",
                     severity |-> "medium", eventId |-> event.id,
                     documentId |-> req.documentId,
                     recipientId |-> req.recipientId, requiresAction |-> 0])
    IN  IF EventInsertFails(event, req.fault)
        THEN Rejected("document-open")
        ELSE /\ events' = InsertEvent(events, event)
             /\ alerts' = IF Anomalies(event, events', now) # <<>>
                          THEN InsertAlert(alerts, alert, now) ELSE alerts
             /\ inbox' = CheckForAnomalies(
                            Broadcast(inbox, [type |-> "DOCUMENT_OPENED", event |-> event]),
                            event, events', now)
             /\ resp' = Response("document-open", 200, event.id, 1,
                                 Anomalies(event, events', now), <<>>)
             /\ UNCHANGED <<incidents, clients, sockets, now>>

DocumentOpen(req) ==
    LET event == SaveEventRecord(OpenEvent(req))
    IN  IF EventInsertFails(event, req.fault)
        THEN Rejected("document-open")
        ELSE /\ events' = InsertEvent(events, event)
             /\ inbox' = CheckForAnomalies(
                            Broadcast(inbox, [type |-> "DOCUMENT_OPENED", event |-> event]),
                            event, events', now)
             /\ resp' = Response("document-open", 200, event.id, 1,
                                 Anomalies(event, events', now), <<>>)
             /\ UNCHANGED <<alerts, incidents, clients, sockets, now>>

-----------------------------------------------------------------------------
(* POST /api/track/page-view *)

PageViewEvent(req) ==
    [BaseEvent(req, "page_viewed") EXCEPT
        !.pageNumber = req.pageNumber, !.timeSpent = req.timeSpent]

PageView(req) ==
    LET event == SaveEventRecord(PageViewEvent(req))
    IN  IF EventInsertFails(event, req.fault)
        THEN Rejected("page-view")
        ELSE /\ events' = InsertEvent(events, event)
             /\ inbox' = Broadcast(inbox, [type |-> "PAGE_VIEWED", event |-> event])
             /\ resp' = Response("page-view", 200, event.id, 0, <<>>, <<>>)
             /\ UNCHANGED <<alerts, incidents, clients, sockets, now>>

-----------------------------------------------------------------------------
(* POST /api/track/copy *)

\* A copy event that carries the risk of an open.
CopyEventLowRisk(req) == [BaseEvent(req, "copy_attempt") EXCEPT !.risk = "low"]

CopyEvent(req) == [BaseEvent(req, "copy_attempt") EXCEPT !.risk = "medium"]

\* A copy handler that also raises an alert, as the download handler does.
CopyRaisingAlert(req) ==
    LET event == SaveEventRecord(CopyEvent(req))
        alert == SaveAlertRecord([id |-> NewAlertId, type |-> "COPY_ATTEMPT",
                     severity |-> "medium", eventId |-> event.id,
                     documentId |-> req.documentId,
                     recipientId |-> req.recipientId, requiresAction |-> 0])
    IN  IF EventInsertFails(event, req.fault)
        THEN Rejected("copy")
        ELSE /\ events' = InsertEvent(events, event)
             /\ alerts' = InsertAlert(alerts, alert, now)
             /\ inbox' = Broadcast(inbox, [type |-> "COPY_DETECTED", event |-> event])
             /\ resp' = Response("copy", 200, event.id, 0, <<>>, <<>>)
             /\ UNCHANGED <<incidents, clients, sockets, now>>

Copy(req) ==
    LET event == SaveEventRecord(CopyEvent(req))
    IN  IF EventInsertFails(event, req.fault)
        THEN Rejected("copy")
        ELSE /\ events' = InsertEvent(events, event)
             /\ inbox' = Broadcast(inbox, [type |-> "COPY_DETECTED", event |-> event])
             /\ resp' = Response("copy", 200, event.id, 0, <<>>, <<>>)
             /\ UNCHANGED <<alerts, incidents, clients, sockets, now>>

-----------------------------------------------------------------------------
(* POST /api/track/download *)

DownloadEvent(req) == [BaseEvent(req, "document_downloaded") EXCEPT !.risk = "high"]

\* A download alert that asks for action, like the print alert.
DownloadAlertRequiringAction(req, event) ==
    [id |-> NewAlertId, type |-> "HIGH_RISK_ACTION", severity |-> "high",
     eventId |-> event.id, documentId |-> req.documentId,
     recipientId |-> req.recipientId, requiresAction |-> 1]

DownloadAlert(req, event) ==
    [id |-> NewAlertId, type |-> "HIGH_RISK_ACTION", severity |-> "high",
     eventId |-> event.id, documentId |-> req.documentId,
     recipientId |-> req.recipientId, requiresAction |-> 0]

\* A download handler that publishes before it writes the alert.
DownloadPublishingFirst(req) ==
    LET event == SaveEventRecord(DownloadEvent(req))
        alert == SaveAlertRecord(DownloadAlert(req, event))
    IN  IF EventInsertFails(event, req.fault)
        THEN Rejected("download")
        ELSE /\ events' = InsertEvent(events, event)
             /\ inbox' = Broadcast(inbox, [type |-> "DOWNLOAD_ALERT",
                                           event |-> event, alert |-> alert])
             /\ UNCHANGED <<incidents, clients, sockets, now>>
             /\ IF AlertInsertFails(alert, events', req.fault)
                THEN /\ resp' = Response("download", 500, event.id, 0, <<>>, <<>>)
                     /\ UNCHANGED alerts
                ELSE /\ alerts' = InsertAlert(alerts, alert, now)
                     /\ resp' = Response("download", 200, event.id, 0, <<>>, <<>>)

\* A download handler that takes the event back when the alert write fails.
DownloadRollingBack(req) ==
    LET event == SaveEventRecord(DownloadEvent(req))
        alert == SaveAlertRecord(DownloadAlert(req, event))
    IN  IF EventInsertFails(event, req.fault)
        THEN Rejected("download")
        ELSE /\ UNCHANGED <<incidents, clients, sockets, now>>
             /\ IF AlertInsertFails(alert, InsertEvent(events, event), req.fault)
                THEN /\ resp' = Response("download", 500, event.id, 0, <<>>, <<>>)
                     /\ UNCHANGED <<events, alerts, inbox>>
                ELSE /\ events' = InsertEvent(events, event)
                     /\ alerts' = InsertAlert(alerts, alert, now)
                     /\ inbox' = Broadcast(inbox, [type |-> "DOWNLOAD_ALERT",
                                                   event |-> event, alert |-> alert])
                     /\ resp' = Response("download", 200, event.id, 0, <<>>, <<>>)

Download(req) ==
    LET event == SaveEventRecord(DownloadEvent(req))
        alert == SaveAlertRecord(DownloadAlert(req, event))
    IN  IF EventInsertFails(event, req.fault)
        THEN Rejected("download")
        ELSE /\ events' = InsertEvent(events, event)
             /\ UNCHANGED <<incidents, clients, sockets, now>>
             /\ IF AlertInsertFails(alert, events', req.fault)
                THEN /\ resp' = Response("download", 500, event.id, 0, <<>>, <<>>)
                     /\ UNCHANGED <<alerts, inbox>>
                ELSE /\ alerts' = InsertAlert(alerts, alert, now)
                     /\ inbox' = Broadcast(inbox, [type |-> "DOWNLOAD_ALERT",
                                                   event |-> event, alert |-> alert])
                     /\ resp' = Response("download", 200, event.id, 0, <<>>, <<>>)

-----------------------------------------------------------------------------
(* POST /api/track/print *)

PrintEvent(req) == [BaseEvent(req, "document_printed") EXCEPT !.risk = "critical"]

\* A print alert of the severity of a download alert.
PrintAlertHigh(req, event) ==
    [id |-> NewAlertId, type |-> "CRITICAL_ACTION", severity |-> "high",
     eventId |-> event.id, documentId |-> req.documentId,
     recipientId |-> req.recipientId, requiresAction |-> 1]

PrintAlert(req, event) ==
    [id |-> NewAlertId, type |-> "CRITICAL_ACTION", severity |-> "critical",
     eventId |-> event.id, documentId |-> req.documentId,
     recipientId |-> req.recipientId, requiresAction |-> 1]

PrintDoc(req) ==
    LET event == SaveEventRecord(PrintEvent(req))
        alert == SaveAlertRecord(PrintAlert(req, event))
    IN  IF EventInsertFails(event, req.fault)
        THEN Rejected("print")
        ELSE /\ events' = InsertEvent(events, event)
             /\ UNCHANGED <<incidents, clients, sockets, now>>
             /\ IF AlertInsertFails(alert, events', req.fault)
                THEN /\ resp' = Response("print", 500, event.id, 0, <<>>, <<>>)
                     /\ UNCHANGED <<alerts, inbox>>
                ELSE /\ alerts' = InsertAlert(alerts, alert, now)
                     /\ inbox' = Broadcast(inbox, [type |-> "CRITICAL_ALERT",
                                                   event |-> event, alert |-> alert])
                     /\ resp' = Response("print", 200, event.id, 0, <<>>, <<>>)

-----------------------------------------------------------------------------
(* POST /api/track/forward *)

\* A forward event that is not marked unauthorized.
ForwardEventUnmarked(req) ==
    [BaseEvent(req, "document_forwarded") EXCEPT
        !.forwardedTo = req.forwardedTo, !.risk = "critical"]

ForwardEvent(req) ==
    [BaseEvent(req, "document_forwarded") EXCEPT
        !.forwardedTo = req.forwardedTo, !.risk = "critical",
        !.unauthorized = "true"]

ForwardIncident(req) ==
    [id |-> NewIncidentId, type |-> "UNAUTHORIZED_FORWARDING",
     severity |-> "CRITICAL", documentId |-> req.documentId,
     fromRecipient |-> req.recipientId, toRecipient |-> req.forwardedTo,
     status |-> "open", timestamp |-> ToISOString(DateOf(now))]

ForwardAlert(req, event) ==
    [id |-> NewAlertId, type |-> "UNAUTHORIZED_SHARE", severity |-> "critical",
     eventId |-> event.id, documentId |-> req.documentId,
     recipientId |-> req.recipientId, requiresAction |-> 1]

Forward(req) ==
    LET event == SaveEventRecord(ForwardEvent(req))
        incident == SaveIncidentRecord(ForwardIncident(req))
        alert == SaveAlertRecord(ForwardAlert(req, event))
    IN  IF EventInsertFails(event, req.fault)
        THEN Rejected("forward")
        ELSE /\ events' = InsertEvent(events, event)
             /\ UNCHANGED <<clients, sockets, now>>
             /\ IF IncidentInsertFails(incident, req.fault)
                THEN /\ resp' = Response("forward", 500, event.id, 0, <<>>, <<>>)
                     /\ UNCHANGED <<incidents, alerts, inbox>>
                ELSE /\ incidents' = InsertIncident(incidents, incident)
                     /\ IF AlertInsertFails(alert, events', req.fault)
                        THEN /\ resp' = Response("forward", 500, event.id, 0, <<>>, <<>>)
                             /\ UNCHANGED <<alerts, inbox>>
                        ELSE /\ alerts' = InsertAlert(alerts, alert, now)
                             /\ inbox' = Broadcast(inbox,
                                   [type |-> "UNAUTHORIZED_SHARE_ALERT", event |-> event,
                                    incident |-> incident, alert |-> alert])
                             /\ resp' = Response("forward", 200, event.id, 0, <<>>, <<>>)

-----------------------------------------------------------------------------
(* Queries *)

DocumentEventsLimit == 100
RecentEventsLimit == 20

\* SELECT ... WHERE documentId = ?
DocumentRows(table, documentId) ==
    SelectSeq(table, LAMBDA e : e.documentId = documentId)

\* Row a comes before row b under ORDER BY timestamp DESC: the timestamp
\* column is TEXT, compared as text.  SQL leaves the order of rows with equal
\* timestamps open; `tie` is the order the query plan gives them: "asc" by
\* rowid (a sort of the rows in table order), "desc" (a backward index scan).
ComesBefore(a, b, tie) ==
    \/ TextLess(b.timestamp, a.timestamp)
    \/ /\ ~TextLess(a.timestamp, b.timestamp)
       /\ IF tie = "asc" THEN a.id < b.id ELSE a.id > b.id

\* Two ordered sequences of events or incidents merged into one.
RECURSIVE MergeByTimestamp(_, _, _)
MergeByTimestamp(l, r, tie) ==
    IF Len(l) = 0 THEN r
    ELSE IF Len(r) = 0 THEN l
    ELSE IF ComesBefore(r[1], l[1], tie)
         THEN <<r[1]>> \o MergeByTimestamp(l, Tail(r), tie)
         ELSE <<l[1]>> \o MergeByTimestamp(Tail(l), r, tie)

\* ORDER BY timestamp DESC
\* (ComesBefore is a total order of the rows: no two rows have the same id.)
RECURSIVE OrderByTimestampDesc(_, _)
OrderByTimestampDesc(rows, tie) ==
    IF Len(rows) <= 1 THEN rows
    ELSE LET half == Len(rows) \div 2
         IN  MergeByTimestamp(OrderByTimestampDesc(SubSeq(rows, 1, half), tie),
                              OrderByTimestampDesc(SubSeq(rows, half + 1, Len(rows)), tie),
                              tie)

\* LIMIT n
Limit(rows, n) == SubSeq(rows, 1, IF Len(rows) < n THEN Len(rows) ELSE n)

\* [...new Set(events.map(e => e[field]).filter(Boolean))]
DistinctTruthy(rows, field) ==
    {rows[i][field] : i \in {j \in DOMAIN rows : ~Falsy(rows[j][field])}}

\* GET /api/documents/:documentId/events: the events array of the answer.
DocumentEventsRows(table, documentId, tie) ==
    Limit(OrderByTimestampDesc(DocumentRows(table, documentId), tie), DocumentEventsLimit)

\* The handler; of its summary, totalEvents and locations are modelled, both
\* computed from the rows the query returned.
DocumentEvents(documentId, tie) ==
    LET rows == DocumentEventsRows(events, documentId, tie)
    IN  /\ resp' = [Response("document-events", 200, 0, 0, <<>>, rows)
                    EXCEPT !.arg = documentId,
                           !.summary =
                               [NoSummary EXCEPT
                                   !.totalEvents = Len(rows),
                                   !.locations = DistinctTruthy(rows, "location")]]
    /\ UNCHANGED <<events, alerts, incidents, clients, sockets, inbox, now>>

\* GET /api/documents/:documentId/tracking-summary

TimelineLimit == 50

\* Every incident, whatever its document.
AllIncidents(table, documentId) == table

\* SELECT * FROM incidents WHERE documentId = ?
DocumentIncidents(table, documentId) ==
    SelectSeq(table, LAMBDA i : i.documentId = documentId)

\* A risk level that is CRITICAL for a single incident only.
RiskLevelOfSingleIncident(incidentRows) ==
    IF Len(incidentRows) = 1 THEN "CRITICAL" ELSE "MEDIUM"

\* incidents.length > 0 ? 'CRITICAL' : 'MEDIUM'
RiskLevel(incidentRows) == IF Len(incidentRows) > 0 THEN "CRITICAL" ELSE "MEDIUM"

TrackingSummary(documentId, tie) ==
    LET rows == OrderByTimestampDesc(DocumentRows(events, documentId), tie)
        incidentRows == DocumentIncidents(incidents, documentId)
    IN  /\ resp' = [Response("tracking-summary", 200, 0, 0, <<>>,
                             Limit(rows, TimelineLimit))
                    EXCEPT !.arg = documentId,
                           !.summary =
                               [totalEvents |-> Len(rows),
                                incidents |-> Len(incidentRows),
                                riskLevel |-> RiskLevel(incidentRows),
                                lastActivity |-> IF Len(rows) > 0
                                                 THEN rows[1].timestamp ELSE NULL,
                                recipients |-> DistinctTruthy(rows, "recipientId"),
                                locations |-> DistinctTruthy(rows, "location")]]
        /\ UNCHANGED <<events, alerts, incidents, clients, sockets, inbox, now>>

\* GET /api/alerts

AlertsLimit == 100

\* Row a comes before row b under ORDER BY createdAt DESC; createdAt is the
\* server's CURRENT_TIMESTAMP, whose text order is its time order.
CreatedBefore(a, b, tie) ==
    \/ a.createdAt > b.createdAt
    \/ /\ a.createdAt = b.createdAt
       /\ IF tie = "asc" THEN a.id < b.id ELSE a.id > b.id

\* Two ordered sequences of alerts merged into one.
RECURSIVE MergeByCreatedAt(_, _, _)
MergeByCreatedAt(l, r, tie) ==
    IF Len(l) = 0 THEN r
    ELSE IF Len(r) = 0 THEN l
    ELSE IF CreatedBefore(r[1], l[1], tie)
         THEN <<r[1]>> \o MergeByCreatedAt(l, Tail(r), tie)
         ELSE <<l[1]>> \o MergeByCreatedAt(Tail(l), r, tie)

\* ORDER BY createdAt DESC
RECURSIVE OrderByCreatedAtDesc(_, _)
OrderByCreatedAtDesc(rows, tie) ==
    IF Len(rows) <= 1 THEN rows
    ELSE LET half == Len(rows) \div 2
         IN  MergeByCreatedAt(OrderByCreatedAtDesc(SubSeq(rows, 1, half), tie),
                              OrderByCreatedAtDesc(SubSeq(rows, half + 1, Len(rows)), tie),
                              tie)

Alerts(tie) ==
    /\ resp' = [Response("alerts", 200, 0, 0, <<>>,
                         Limit(OrderByCreatedAtDesc(alerts, tie), AlertsLimit))
                EXCEPT !.total = Len(alerts)]
    /\ UNCHANGED <<events, alerts, incidents, clients, sockets, inbox, now>>

\* GET /api/incidents: SELECT * FROM incidents ORDER BY timestamp DESC, with
\* no LIMIT.
Incidents(tie) ==
    /\ resp' = [Response("incidents", 200, 0, 0, <<>>,
                         OrderByTimestampDesc(incidents, tie))
                EXCEPT !.total = Len(incidents)]
    /\ UNCHANGED <<events, alerts, incidents, clients, sockets, inbox, now>>

\* A health report that counts every socket that ever connected.
HealthCountingSockets ==
    /\ resp' = [Response("health", 200, 0, 0, <<>>, <<>>)
                EXCEPT !.stats = [totalEvents |-> Len(events),
                                  totalAlerts |-> Len(alerts),
                                  totalIncidents |-> Len(incidents),
                                  connectedAdmins |->
                                      Cardinality({c \in DOMAIN sockets :
                                                      sockets[c] # "NEW"})]]
    /\ UNCHANGED <<events, alerts, incidents, clients, sockets, inbox, now>>

\* GET /api/health
Health ==
    /\ resp' = [Response("health", 200, 0, 0, <<>>, <<>>)
                EXCEPT !.stats = [totalEvents |-> Len(events),
                                  totalAlerts |-> Len(alerts),
                                  totalIncidents |-> Len(incidents),
                                  connectedAdmins |-> Cardinality(clients)]]
    /\ UNCHANGED <<events, alerts, incidents, clients, sockets, inbox, now>>

-----------------------------------------------------------------------------
(* WebSocket connections *)

\* wss.on('connection'): a new socket is registered and sent the snapshot.
Snapshot(tie) ==
    [type |-> "CONNECTED",
     totalEvents |-> Len(events),
     totalAlerts |-> Len(alerts),
     totalIncidents |-> Len(incidents),
     recentEvents |-> Limit(OrderByTimestampDesc(events, tie), RecentEventsLimit)]

Connect(c, tie) ==
    /\ sockets[c] = "NEW"
    /\ sockets' = [sockets EXCEPT ![c] = "OPEN"]
    /\ clients' = clients \cup {c}
    /\ inbox' = [inbox EXCEPT ![c] = Append(@, Snapshot(tie))]
    /\ resp' = Response("connect", 0, 0, 0, <<>>, <<>>)
    /\ UNCHANGED <<events, alerts, incidents, now>>

\* ws.on('close'): the socket has closed and left wss.clients.
Close(c) ==
    /\ sockets[c] \in {"OPEN", "CLOSING"}
    /\ sockets' = [sockets EXCEPT ![c] = "CLOSED"]
    /\ clients' = clients \ {c}
    /\ resp' = Response("close", 0, 0, 0, <<>>, <<>>)
    /\ UNCHANGED <<events, alerts, incidents, inbox, now>>

\* An error handler that leaves the socket in the registered set.
SocketErrorKeepingClient(c) ==
    /\ sockets[c] = "OPEN"
    /\ sockets' = [sockets EXCEPT ![c] = "CLOSING"]
    /\ resp' = Response("error", 0, 0, 0, <<>>, <<>>)
    /\ UNCHANGED <<events, alerts, incidents, clients, inbox, now>>

\* ws.on('error'): ws reports the error with the socket already CLOSING and
\* emits 'close' afterwards.
SocketError(c) ==
    /\ sockets[c] = "OPEN"
    /\ sockets' = [sockets EXCEPT ![c] = "CLOSING"]
    /\ clients' = clients \ {c}
    /\ resp' = Response("error", 0, 0, 0, <<>>, <<>>)
    /\ UNCHANGED <<events, alerts, incidents, inbox, now>>

\* The monitor starts the closing handshake (a browser tab is closed): ws
\* answers the close frame and sets readyState to CLOSING; 'close' is emitted
\* only when the TCP socket has ended, so no handler of the server runs yet.
CloseFrame(c) ==
    /\ sockets[c] = "OPEN"
    /\ sockets' = [sockets EXCEPT ![c] = "CLOSING"]
    /\ UNCHANGED <<events, alerts, incidents, clients, inbox, now, resp>>

-----------------------------------------------------------------------------
(* The clock *)

\* Time passes: Date.now() grows by d seconds.
Tick(d) ==
    /\ now' = now + d
    /\ UNCHANGED <<events, alerts, incidents, clients, sockets, inbox, resp>>

-----------------------------------------------------------------------------
(* Initial state: the server has started on an empty database *)

InitAt(starts, conns) ==
    /\ events = <<>>
    /\ alerts = <<>>
    /\ incidents = <<>>
    /\ clients = {}
    /\ sockets = [c \in conns |-> "NEW"]
    /\ inbox = [c \in conns |-> <<>>]
    /\ now \in starts
    /\ resp = Response("none", 0, 0, 0, <<>>, <<>>)

-----------------------------------------------------------------------------
(* Requests *)

\* 2024-10-04T00:00:00Z, in seconds.
Midnight == 20000 * 86400

\* A request: the JSON body or URL fields, the connection's addresses and
\* user agent, and `fault`, the write the database fails in while the request
\* is served ("none", "event", "incident", "alert").
Request(documentId, recipientId) ==
    [documentId |-> documentId, recipientId |-> recipientId,
     forwardedTo |-> UNDEF, watermarkId |-> UNDEF, pageNumber |-> UNDEF,
     timeSpent |-> UNDEF, action |-> UNDEF, ts |-> [k |-> "absent", t |-> 0],
     xff |-> UNDEF, remote |-> "ip1", ua |-> "Mozilla Chrome Safari",
     fault |-> "none"]

-----------------------------------------------------------------------------
(* Spec: every operation of the server, on well-formed requests *)

MaxEvents == 2
MaxDrift == 61

Conns == {"c1"}

CanStore == Len(events) < MaxEvents

Report == [Request("d1", "r1") EXCEPT !.watermarkId = "wm1", !.pageNumber = "3",
                                      !.timeSpent = "12", !.forwardedTo = "x@ext"]

PixelRequests ==
    {[Request("d1", "r1") EXCEPT !.ts = ts] :
        ts \in {[k |-> "absent", t |-> 0], [k |-> "overflow", t |-> 0]}}

Init == InitAt({Midnight + 14 * 3600}, Conns)

Next ==
    \/ CanStore /\ \E req \in PixelRequests : Pixel(req)
    \/ CanStore /\ DocumentOpen(Report)
    \/ CanStore /\ PageView(Report)
    \/ CanStore /\ Copy(Report)
    \/ CanStore /\ Download(Report)
    \/ CanStore /\ PrintDoc(Report)
    \/ CanStore /\ Forward(Report)
    \/ \E tie \in {"asc", "desc"} : DocumentEvents("d1", tie)
    \/ \E tie \in {"asc", "desc"} : TrackingSummary("d1", tie)
    \/ \E tie \in {"asc", "desc"} : Alerts(tie)
    \/ \E tie \in {"asc", "desc"} : Incidents(tie)
    \/ Health
    \/ \E c \in Conns, tie \in {"asc", "desc"} : Connect(c, tie)
    \/ \E c \in Conns : Close(c)
    \/ \E c \in Conns : SocketError(c)
    \/ (now + 61) % 1800 <= MaxDrift /\ Tick(61)

Spec == Init /\ [][Next]_vars

-----------------------------------------------------------------------------
(* SpecStore: the ingestion handlers on complete, incomplete and varied     *)
(* requests, with and without database failures                            *)

\* Bodies of the structured reports: a complete one, one with an empty
\* recipientId, and one each without recipientId and without documentId.
Bodies ==
    {Request("d1", "r1"), Request("d1", ""), Request("d1", UNDEF),
     Request(UNDEF, "r1")}

StorePixelRequests ==
    {[Request("d1", "r1") EXCEPT !.ts = ts, !.action = a] :
        ts \in {[k |-> "absent", t |-> 0], [k |-> "future", t |-> 0]},
        a \in {UNDEF, "opened"}}

StoreOpenRequests ==
    {[b EXCEPT !.watermarkId = w] : b \in Bodies, w \in {UNDEF, "wm1"}}

StorePageViewRequests ==
    {[b EXCEPT !.pageNumber = n, !.timeSpent = "12"] : b \in Bodies, n \in {UNDEF, ZERO}}

StoreCopyRequests == {[b EXCEPT !.ua = u] : b \in Bodies, u \in {UNDEF, "Mozilla Firefox"}}

\* Download and print reports: other fields vary too (a forwardedTo the
\* handler does not read, the address, the user agent).
StoreAlertRequests ==
    {[b EXCEPT !.fault = f, !.xff = x[1], !.ua = x[2], !.forwardedTo = x[3]] :
        b \in Bodies, f \in {"none", "event", "alert"},
        x \in {<<UNDEF, "Mozilla Chrome Safari", UNDEF>>, <<"ip0", UNDEF, "x@ext">>}}

StoreForwardRequests ==
    {[b EXCEPT !.forwardedTo = t, !.fault = f] :
        b \in Bodies, t \in {UNDEF, "x@ext"},
        f \in {"none", "event", "incident", "alert"}}

StoreInit == InitAt({Midnight + 14 * 3600}, Conns)

StoreNext ==
    \/ CanStore /\ \E req \in StorePixelRequests : Pixel(req)
    \/ CanStore /\ \E req \in StoreOpenRequests : DocumentOpen(req)
    \/ CanStore /\ \E req \in StorePageViewRequests : PageView(req)
    \/ CanStore /\ \E req \in StoreCopyRequests : Copy(req)
    \/ CanStore /\ \E req \in StoreAlertRequests : Download(req)
    \/ CanStore /\ \E req \in StoreAlertRequests : PrintDoc(req)
    \/ CanStore /\ \E req \in StoreForwardRequests : Forward(req)

SpecStore == StoreInit /\ [][StoreNext]_vars

-----------------------------------------------------------------------------
(* SpecLoc: one recipient opens a document from several addresses *)

MaxLocEvents == 5

\* Six addresses: Paris, Berlin, "Unknown, US", Oslo, Lima and one the
\* geolocation database does not know ("Unknown Location").
LocRequests ==
    {[Report EXCEPT !.xff = x] : x \in {UNDEF, "ip2", "ip3", "ip4", "ip5", "ip0"}}

LocInit == InitAt({Midnight + 14 * 3600}, Conns)

LocNext == Len(events) < MaxLocEvents /\ \E req \in LocRequests : DocumentOpen(req)

SpecLoc == LocInit /\ [][LocNext]_vars

-----------------------------------------------------------------------------
(* SpecClock: a document is opened at any half hour of a day *)

MaxClockEvents == 2

ClockInit == InitAt({Midnight}, Conns)

ClockNext ==
    \/ Len(events) < MaxClockEvents /\ DocumentOpen(Report)
    \/ (now + 1800) % 86400 > now % 86400 /\ Tick(1800)

SpecClock == ClockInit /\ [][ClockNext]_vars

-----------------------------------------------------------------------------
(* SpecRapid: one recipient opens and copies in quick succession *)

MaxRapidEvents == 6
MaxRapidDrift == 90

RapidInit == InitAt({Midnight + 14 * 3600}, Conns)

RapidNext ==
    \/ Len(events) < MaxRapidEvents /\ DocumentOpen(Report)
    \/ Len(events) < MaxRapidEvents /\ Copy(Report)
    \/ (now + 30) % 1800 <= MaxRapidDrift /\ Tick(30)

SpecRapid == RapidInit /\ [][RapidNext]_vars

-----------------------------------------------------------------------------
(* SpecWindow: pixel beacons dated by the client, then the document opened *)

MaxWindowEvents == 6

\* Beacons without ts, with a ts one hour after the server's start and with
\* a ts fourteen hours before it.
WindowPixelRequests ==
    {[Request("d1", "r1") EXCEPT !.ts = ts] :
        ts \in {[k |-> "absent", t |-> 0],
                [k |-> "num", t |-> Midnight + 15 * 3600],
                [k |-> "num", t |-> Midnight]}}

WindowInit == InitAt({Midnight + 14 * 3600}, Conns)

WindowNext ==
    \/ Len(events) < MaxWindowEvents /\ \E req \in WindowPixelRequests : Pixel(req)
    \/ Len(events) < MaxWindowEvents /\ DocumentOpen(Report)
    \/ (now + 61) % 1800 <= MaxRapidDrift /\ Tick(61)

SpecWindow == WindowInit /\ [][WindowNext]_vars

-----------------------------------------------------------------------------
(* SpecStamp: beacons and copy reports that carry a time of their own *)

MaxStampEvents == 3

\* The ts a request carries: none, 0, the midnight before the server's start
\* and one hour after the start.
StampTs ==
    {[k |-> "absent", t |-> 0], [k |-> "num", t |-> 0],
     [k |-> "num", t |-> Midnight], [k |-> "num", t |-> Midnight + 15 * 3600]}

StampPixelRequests == {[Request("d1", "r1") EXCEPT !.ts = ts] : ts \in StampTs}

\* Copy reports with the same ts, which the copy handler does not read.
StampCopyRequests == {[Request("d1", "r1") EXCEPT !.ts = ts] : ts \in StampTs}

StampInit == InitAt({Midnight + 14 * 3600}, Conns)

StampNext ==
    \/ Len(events) < MaxStampEvents /\ \E req \in StampPixelRequests : Pixel(req)
    \/ Len(events) < MaxStampEvents /\ \E req \in StampCopyRequests : Copy(req)
    \/ (now + 61) % 1800 <= MaxDrift /\ Tick(61)

SpecStamp == StampInit /\ [][StampNext]_vars

-----------------------------------------------------------------------------
(* SpecCount: reports about several documents, with no write failing *)

MaxCountEvents == 3

\* The documentId of a report's body: two documents and the empty string.
CountDocuments == {"d1", "d2", ""}

CountRequests ==
    {[Request(d, "r1") EXCEPT !.forwardedTo = "x@ext"] : d \in CountDocuments}

\* The pixel's documentId is a segment of the URL path, never empty.
CountPixelRequests == {Request(d, "r1") : d \in CountDocuments \ {""}}

CountInit == InitAt({Midnight + 14 * 3600}, Conns)

CountNext ==
    /\ Len(events) < MaxCountEvents
    /\ \/ \E req \in CountPixelRequests : Pixel(req)
       \/ \E req \in CountRequests : DocumentOpen(req)
       \/ \E req \in CountRequests : PageView(req)
       \/ \E req \in CountRequests : Copy(req)
       \/ \E req \in CountRequests : Download(req)
       \/ \E req \in CountRequests : PrintDoc(req)
       \/ \E req \in CountRequests : Forward(req)

SpecCount == CountInit /\ [][CountNext]_vars

-----------------------------------------------------------------------------
(* SpecPublish: reports served while writes fail, with a monitor connected *)

MaxPublishEvents == 2

\* Reports served without failure or while one of the writes fails.
PublishRequests ==
    {[Report EXCEPT !.fault = f] : f \in {"none", "event", "incident", "alert"}}

\* The server runs at 02:00: a document-open report yields a finding.
PublishInit == InitAt({Midnight + 2 * 3600}, Conns)

PublishNext ==
    \/ Len(events) < MaxPublishEvents /\ \E req \in PublishRequests : DocumentOpen(req)
    \/ Len(events) < MaxPublishEvents /\ \E req \in PublishRequests : Download(req)
    \/ Len(events) < MaxPublishEvents /\ \E req \in PublishRequests : Forward(req)
    \/ \E c \in Conns, tie \in {"asc", "desc"} : Connect(c, tie)
    \/ \E c \in Conns : Close(c)

SpecPublish == PublishInit /\ [][PublishNext]_vars

-----------------------------------------------------------------------------
(* SpecOrder: opens and copies in quick succession, watched by a monitor *)

MaxOrderEvents == 6

\* The server runs at 02:00 (night) or at 14:00.
OrderInit == InitAt({Midnight + 2 * 3600, Midnight + 14 * 3600}, Conns)

OrderNext ==
    \/ Len(events) < MaxOrderEvents /\ DocumentOpen(Report)
    \/ Len(events) < MaxOrderEvents /\ Copy(Report)
    \/ \E c \in Conns, tie \in {"asc", "desc"} : Connect(c, tie)
    \/ \E c \in Conns : Close(c)

SpecOrder == OrderInit /\ [][OrderNext]_vars

-----------------------------------------------------------------------------
(* SpecQuery: events of two documents, pixel beacons with their own ts *)

MaxQueryEvents == 3

QueryPixelRequests ==
    {[Request("d1", "r1") EXCEPT !.ts = ts] :
        ts \in {[k |-> "absent", t |-> 0], [k |-> "num", t |-> Midnight],
                [k |-> "future", t |-> 0], [k |-> "past", t |-> 0]}}

QueryCopyRequests == {Request("d1", "r1"), Request("d2", "r1")}

QueryInit == InitAt({Midnight + 14 * 3600}, Conns)

QueryNext ==
    \/ Len(events) < MaxQueryEvents /\ \E req \in QueryPixelRequests : Pixel(req)
    \/ Len(events) < MaxQueryEvents /\ \E req \in QueryCopyRequests : Copy(req)
    \/ \E d \in {"d1", "d2"}, tie \in {"asc", "desc"} : DocumentEvents(d, tie)
    \/ (now + 61) % 1800 <= MaxDrift /\ Tick(61)

SpecQuery == QueryInit /\ [][QueryNext]_vars

-----------------------------------------------------------------------------
(* SpecBulk: a monitor subscribes to a store of more than twenty events *)

MaxBulkEvents == 21

\* The tracking pixel fetched with a ts beyond year 9999.
BulkPixelRequests == {[Request("d1", "r1") EXCEPT !.ts = [k |-> "future", t |-> 0]]}

BulkInit == InitAt({Midnight + 14 * 3600}, Conns)

\* The first request is a pixel fetch, a forward or a copy; copies follow,
\* one second apart.
BulkNext ==
    \/ Len(events) = 0 /\ \E req \in BulkPixelRequests : Pixel(req)
    \/ Len(events) = 0 /\ Forward(Report)
    \/ /\ Len(events) < MaxBulkEvents
       /\ now = Midnight + 14 * 3600 + Len(events)
       /\ Copy(Report)
    \/ \E c \in Conns, tie \in {"asc", "desc"} : Connect(c, tie)
    \/ now < Midnight + 14 * 3600 + Len(events) /\ Tick(1)

SpecBulk == BulkInit /\ [][BulkNext]_vars

-----------------------------------------------------------------------------
(* SpecHub: two monitors come and go while reports are ingested at night *)

MaxHubEvents == 2

HubConns == {"c1", "c2"}

\* Download reports, one of them served while the alert write fails.
HubDownloadRequests == {[Report EXCEPT !.fault = f] : f \in {"none", "alert"}}

\* The server runs at 02:00, when every document-open report yields an
\* UNUSUAL_TIME finding, or at 14:00, when none does.
HubInit == InitAt({Midnight + 2 * 3600, Midnight + 14 * 3600}, HubConns)

HubNext ==
    \/ Len(events) < MaxHubEvents /\ DocumentOpen(Report)
    \/ Len(events) < MaxHubEvents /\ Copy(Report)
    \/ Len(events) < MaxHubEvents /\ \E req \in HubDownloadRequests : Download(req)
    \/ \E c \in HubConns, tie \in {"asc", "desc"} : Connect(c, tie)
    \/ \E c \in HubConns : Close(c)
    \/ \E c \in HubConns : SocketError(c)
    \/ \E c \in HubConns : CloseFrame(c)
    \/ Health

SpecHub == HubInit /\ [][HubNext]_vars

-----------------------------------------------------------------------------
(* SpecSummary: forwards and copies of two documents, and their summaries *)

MaxSummaryEvents == 3

\* Forward reports of two documents, some served while the incident write
\* fails.
SummaryForwardRequests ==
    {[Request(d, "r1") EXCEPT !.forwardedTo = "x@ext", !.fault = f] :
        d \in {"d1", "d2"}, f \in {"none", "incident"}}

SummaryCopyRequests == {Request("d1", "r1"), Request("d2", "r2")}

SummaryInit == InitAt({Midnight + 14 * 3600}, Conns)

\* d3 is a document nothing was ever reported about.
SummaryNext ==
    \/ Len(events) < MaxSummaryEvents /\ \E req \in SummaryForwardRequests : Forward(req)
    \/ Len(events) < MaxSummaryEvents /\ \E req \in SummaryCopyRequests : Copy(req)
    \/ \E d \in {"d1", "d2", "d3"}, tie \in {"asc", "desc"} : TrackingSummary(d, tie)

SpecSummary == SummaryInit /\ [][SummaryNext]_vars

-----------------------------------------------------------------------------
(* SpecDemo: the demonstration run of test-email.js against an empty store *)

\* simulatePageViews(documentId, recipientId, 5)
DemoPages == 5

PageNumbers == <<"1", "2", "3", "4", "5">>

\* How many events of this type are stored.
Count(type) == Cardinality({i \in DOMAIN events : events[i].type = type})

\* The bodies the demonstration sends for its document and recipient.
DemoReport ==
    [Request("d1", "r1") EXCEPT !.watermarkId = "wm1", !.ua = UNDEF,
                                !.forwardedTo = "unauthorized@external.com"]

DemoPixelRequest ==
    [Request("d1", "r1") EXCEPT !.action = "opened", !.ua = UNDEF,
                                !.ts = [k |-> "num", t |-> Midnight + 14 * 3600]]

\* A print of another document by another recipient.
OtherReport == Request("d2", "r2")

DemoInit == InitAt({Midnight + 14 * 3600}, Conns)

\* The run: the email is opened (the pixel; may be blocked), the document is
\* opened, its five pages are viewed, text is copied (or not), the document
\* is downloaded, printed and forwarded; the results are fetched at any time,
\* and another document may be printed.
DemoNext ==
    \/ events = <<>> /\ Pixel(DemoPixelRequest)
    \/ /\ Count("document_opened") = 0 /\ Count("document_printed") = 0
       /\ DocumentOpen(DemoReport)
    \/ /\ Count("document_opened") = 1
       /\ Count("page_viewed") < DemoPages
       /\ PageView([DemoReport EXCEPT
              !.pageNumber = PageNumbers[Count("page_viewed") + 1],
              !.timeSpent = "5000"])
    \/ /\ Count("page_viewed") = DemoPages
       /\ Count("copy_attempt") = 0 /\ Count("document_downloaded") = 0
       /\ Copy(DemoReport)
    \/ /\ Count("page_viewed") = DemoPages /\ Count("document_downloaded") = 0
       /\ Download(DemoReport)
    \/ /\ Count("document_downloaded") = 1
       /\ \A i \in DOMAIN events :
              events[i].type = "document_printed" => events[i].documentId # "d1"
       /\ PrintDoc(DemoReport)
    \/ /\ \E i \in DOMAIN events :
              events[i].type = "document_printed" /\ events[i].documentId = "d1"
       /\ Count("document_forwarded") = 0
       /\ Forward(DemoReport)
    \/ /\ Count("document_opened") = 1
       /\ \A i \in DOMAIN events : events[i].documentId # "d2"
       /\ PrintDoc(OtherReport)
    \/ \E tie \in {"asc", "desc"} : TrackingSummary("d1", tie)
    \/ \E tie \in {"asc", "desc"} : Alerts(tie)

SpecDemo == DemoInit /\ [][DemoNext]_vars

-----------------------------------------------------------------------------
(* SpecList: more than a hundred forwards of one document, and the listings *)

MaxListEvents == 101

ListInit == InitAt({Midnight + 14 * 3600}, Conns)

\* Forward reports arrive two per second.
ListNext ==
    \/ /\ Len(events) < MaxListEvents
       /\ now = Midnight + 14 * 3600 + Len(events) \div 2
       /\ Forward(Report)
    \/ now < Midnight + 14 * 3600 + Len(events) \div 2 /\ Tick(1)
    \/ \E tie \in {"asc", "desc"} : Alerts(tie)
    \/ \E tie \in {"asc", "desc"} : Incidents(tie)
    \/ \E tie \in {"asc", "desc"} : DocumentEvents("d1", tie)
    \/ \E tie \in {"asc", "desc"} : TrackingSummary("d1", tie)

SpecList == ListInit /\ [][ListNext]_vars

-----------------------------------------------------------------------------
(* Properties *)

\* The step stored an event of one of the given types and its request was
\* answered with success.
Ingested(types) ==
    /\ Len(events') = Len(events) + 1
    /\ events'[Len(events')].type \in types
    /\ resp'.status = 200

\* The step stored an event of one of the given types, whatever came after.
Stored(types) ==
    /\ Len(events') = Len(events) + 1
    /\ events'[Len(events')].type \in types

\* `table` grew by exactly one row, the rows before it untouched.
GrewByOne(before, after) ==
    /\ Len(after) = Len(before) + 1
    /\ SubSeq(after, 1, Len(before)) = before

\* C1: every document_forwarded ingestion produces exactly one Incident
\* (UNAUTHORIZED_FORWARDING) and exactly one Alert (UNAUTHORIZED_SHARE,
\* critical, requiresAction), and the Incident's fromRecipient / toRecipient
\* equal the stored event's recipientId / forwardedTo.
C1_ForwardCreatesIncidentAndAlert ==
    [][Ingested({"document_forwarded"}) =>
        LET event == events'[Len(events')]
            incident == incidents'[Len(incidents')]
            alert == alerts'[Len(alerts')]
        IN  /\ GrewByOne(incidents, incidents')
            /\ GrewByOne(alerts, alerts')
            /\ incident.type = "UNAUTHORIZED_FORWARDING"
            /\ alert.type = "UNAUTHORIZED_SHARE"
            /\ alert.severity = "critical"
            /\ alert.requiresAction = 1
            /\ alert.eventId = event.id
            /\ incident.fromRecipient = event.recipientId
            /\ incident.toRecipient = event.forwardedTo]_vars

\* C2: every document_downloaded ingestion creates exactly one Alert
\* {HIGH_RISK_ACTION, high, requiresAction false}, every document_printed
\* ingestion exactly one Alert {CRITICAL_ACTION, critical, requiresAction
\* true}; neither creates an Incident; no other field of the request changes
\* this (the requests differ in recipientId, address, user agent, forwardedTo).
C2_DownloadPrintAlert ==
    [][Ingested({"document_downloaded", "document_printed"}) =>
        LET event == events'[Len(events')]
            alert == alerts'[Len(alerts')]
        IN  /\ GrewByOne(alerts, alerts')
            /\ incidents' = incidents
            /\ alert.eventId = event.id
            /\ event.type = "document_downloaded" =>
                  /\ alert.type = "HIGH_RISK_ACTION"
                  /\ alert.severity = "high"
                  /\ alert.requiresAction = 0
            /\ event.type = "document_printed" =>
                  /\ alert.type = "CRITICAL_ACTION"
                  /\ alert.severity = "critical"
                  /\ alert.requiresAction = 1]_vars

\* A print was ingested after a download whose request carried another
\* address, no user agent and a forwardedTo: one alert each.
C2_Witness ==
    /\ resp.op = "print" /\ resp.status = 200
    /\ Len(events) = 2 /\ Len(alerts) = 2 /\ incidents = <<>>
    /\ events[1].type = "document_downloaded"
    /\ events[1].ipAddress = "ip0" /\ events[1].userAgent = NULL
    /\ alerts[1].type = "HIGH_RISK_ACTION" /\ alerts[1].eventId = 1
    /\ alerts[2].type = "CRITICAL_ACTION" /\ alerts[2].eventId = 2

\* C3: ingesting a pixel_beacon, document_opened, page_viewed or copy_attempt
\* event leaves the stored Alerts and Incidents unchanged.
C3_NoAlertForLowRiskTypes ==
    [][Stored({"pixel_beacon", "document_opened", "page_viewed", "copy_attempt"}) =>
        alerts' = alerts /\ incidents' = incidents]_vars

\* A copy was ingested into a store that already holds an alert and an
\* incident.
C3_Witness ==
    /\ resp.op = "copy" /\ resp.status = 200
    /\ Len(events) = 2 /\ events[2].type = "copy_attempt"
    /\ Len(alerts) = 1 /\ Len(incidents) = 1

\* The risk tier of an event type, as the claim states it.
ClaimedRisk(type) ==
    CASE type = "document_opened" -> "low"
      [] type = "copy_attempt" -> "medium"
      [] type = "document_downloaded" -> "high"
      [] type \in {"document_printed", "document_forwarded"} -> "critical"
      [] type \in {"pixel_beacon", "page_viewed"} -> "none"

\* C4 as stated: the risk stored on every Event is one of none, low, medium,
\* high, critical, fixed by the type, pixel_beacon and page_viewed being none.
C4_RiskIsATier ==
    \A i \in DOMAIN events :
        /\ events[i].risk \in {"none", "low", "medium", "high", "critical"}
        /\ events[i].risk = ClaimedRisk(events[i].type)

\* C4, amended: the stored risk is fixed by the type alone, low / medium /
\* high / critical / critical as stated, and pixel_beacon and page_viewed
\* events store no risk at all (NULL), not a tier named none.
C4_RiskByType ==
    \A i \in DOMAIN events :
        events[i].risk =
            IF events[i].type \in {"pixel_beacon", "page_viewed"}
            THEN NULL ELSE ClaimedRisk(events[i].type)

\* A copy_attempt and a page_viewed event are stored.
C4_Witness ==
    /\ Len(events) = 2
    /\ events[1].type = "copy_attempt" /\ events[1].risk = "medium"
    /\ events[2].type = "page_viewed" /\ events[2].risk = NULL

\* C5: the anomaly detector is evaluated exactly once for every ingested
\* event, of every type, after the event was persisted.
C5_DetectorRunsForEveryEvent ==
    [][Len(events') = Len(events) + 1 => resp'.checks = 1]_vars

\* C9: a persisted Event is never mutated or deleted: every operation leaves
\* every stored Event in place with all its fields.
C9_EventsImmutable ==
    [][/\ Len(events') >= Len(events)
       /\ \A i \in DOMAIN events : events'[i] = events[i]]_vars

\* Two events are stored, and a query, a connection and its close followed.
C9_Witness ==
    /\ Len(events) = 2 /\ events[1].type = "document_opened"
    /\ events[1].documentId = events[2].documentId
    /\ events[1].recipientId = events[2].recipientId
    /\ sockets["c1"] = "CLOSED" /\ Len(inbox["c1"]) = 2
    /\ resp.op = "document-events" /\ Len(resp.rows) = 2

\* The last request stored the newest event of the table and was answered
\* with success.
JustIngested ==
    /\ Len(events) > 0
    /\ resp.status = 200
    /\ resp.eventId = Len(events)

\* The answer's anomalies hold a finding of this type and severity.
HasFinding(type, severity) ==
    \E i \in DOMAIN resp.anomalies :
        resp.anomalies[i] = [type |-> type, severity |-> severity]

\* The stored events of the newest event's recipient that precede it.
EarlierOfRecipient ==
    RecipientEvents(SubSeq(events, 1, Len(events) - 1),
                    events[Len(events)].recipientId)

\* C6: for a recipient whose previously stored events cover 4 or more
\* distinct non-empty locations, an event at a location not among them
\* produces an UNUSUAL_LOCATION finding (medium), and one at a location seen
\* before does not.
C6_UnusualLocationFinding ==
    (JustIngested /\ resp.op = "document-open") =>
        LET seen == LocationsOf(EarlierOfRecipient)
        IN  Cardinality(seen) >= 4 =>
                (HasFinding("UNUSUAL_LOCATION", "medium")
                    <=> events[Len(events)].location \notin seen)

\* C7: an evaluated event produces an UNUSUAL_TIME finding (low) if and only
\* if its local time of day is before 06:00 or after 22:00.
C7_UnusualTimeFinding ==
    (JustIngested /\ resp.op = "document-open") =>
        LET timeOfDay == events[Len(events)].timestamp.t % 86400
        IN  HasFinding("UNUSUAL_TIME", "low")
                <=> (timeOfDay < 6 * 3600 \/ timeOfDay > 22 * 3600)

\* C8: the ingestion of an event, of whatever type, that is the 6th or later
\* of its recipient within the trailing 60 seconds triggers a RAPID_ACCESS
\* finding (high); with 5 or fewer events in the window there is none.
C8_RapidAccessFinding ==
    JustIngested =>
        LET event == events[Len(events)]
            window == SelectSeq(RecipientEvents(events, event.recipientId),
                        LAMBDA e : /\ e.timestamp.t >= event.timestamp.t - 60
                                   /\ e.timestamp.t <= event.timestamp.t)
        IN  HasFinding("RAPID_ACCESS", "high") <=> Len(window) >= 6

\* C10: the per-document events query returns exactly the stored events of
\* that document, newest first by timestamp, truncated to the limit (100).
C10_DocumentEventsNewestFirst ==
    resp.op = "document-events" =>
        LET rows == resp.rows
            matching == DocumentRows(events, resp.arg)
            When(e) == ParseISO(e.timestamp)
            Returned(e) == \E i \in DOMAIN rows : rows[i] = e
        IN  /\ Len(rows) = IF Len(matching) < 100 THEN Len(matching) ELSE 100
            /\ \A i \in DOMAIN rows : \E j \in DOMAIN matching : rows[i] = matching[j]
            /\ \A i, j \in DOMAIN rows : i # j => rows[i].id # rows[j].id
            /\ \A i, j \in DOMAIN rows : i < j => ~Earlier(When(rows[i]), When(rows[j]))
            /\ \A i \in DOMAIN rows, j \in DOMAIN matching :
                   ~Returned(matching[j]) => ~Earlier(When(rows[i]), When(matching[j]))

\* C11: a monitor that subscribes is sent a CONNECTED snapshot whose counts
\* equal the numbers of stored events, alerts and incidents at that moment
\* and whose events are the newest stored events, up to 20 of them.
C11_SnapshotOfNewest ==
    [][\A c \in DOMAIN sockets :
          (sockets[c] = "NEW" /\ sockets'[c] = "OPEN") =>
              LET m == inbox'[c][Len(inbox'[c])]
                  rows == m.recentEvents
                  When(e) == ParseISO(e.timestamp)
                  Returned(e) == \E i \in DOMAIN rows : rows[i] = e
              IN  /\ m.type = "CONNECTED"
                  /\ m.totalEvents = Len(events)
                  /\ m.totalAlerts = Len(alerts)
                  /\ m.totalIncidents = Len(incidents)
                  /\ Len(rows) = IF Len(events) < 20 THEN Len(events) ELSE 20
                  /\ \A i \in DOMAIN rows : \E j \in DOMAIN events : rows[i] = events[j]
                  /\ \A i, j \in DOMAIN rows : i # j => rows[i].id # rows[j].id
                  /\ \A i \in DOMAIN rows, j \in DOMAIN events :
                         ~Returned(events[j]) =>
                             ~Earlier(When(rows[i]), When(events[j]))]_vars

\* The seven event types.
EventTypes ==
    {"pixel_beacon", "document_opened", "page_viewed", "copy_attempt",
     "document_downloaded", "document_printed", "document_forwarded"}

C13_SameMessageToAllRegistered ==
    [][Ingested(EventTypes) =>
          \A c, d \in clients :
              /\ Len(inbox'[c]) > Len(inbox[c])
              /\ SubSeq(inbox'[c], Len(inbox[c]) + 1, Len(inbox'[c]))
                    = SubSeq(inbox'[d], Len(inbox[d]) + 1, Len(inbox'[d]))]_vars

\* C13, amended: every publish sends the same message to every registered
\* connection whose socket is open when the publish is made, and to no other
\* connection; a registered connection that has begun to close is skipped.
C13_SameMessageToAllOpen ==
    [][Ingested(EventTypes) =>
          /\ \A c \in DOMAIN sockets : sockets[c] = "OPEN" => c \in clients
          /\ \A c \in DOMAIN sockets : sockets[c] # "OPEN" => inbox'[c] = inbox[c]
          /\ \A c, d \in {x \in clients : sockets[x] = "OPEN"} :
                /\ Len(inbox'[c]) > Len(inbox[c])
                /\ SubSeq(inbox'[c], 1, Len(inbox[c])) = inbox[c]
                /\ SubSeq(inbox'[c], Len(inbox[c]) + 1, Len(inbox'[c]))
                      = SubSeq(inbox'[d], Len(inbox[d]) + 1, Len(inbox'[d]))]_vars

\* Two monitors that subscribed at different times were both sent the
\* message of a copy report.
C13_Witness ==
    /\ clients = {"c1", "c2"}
    /\ sockets["c1"] = "OPEN" /\ sockets["c2"] = "OPEN"
    /\ resp.op = "copy" /\ resp.status = 200 /\ Len(events) = 2
    /\ Len(inbox["c1"]) = 3 /\ Len(inbox["c2"]) = 2
    /\ inbox["c1"][3] = inbox["c2"][2]
    /\ inbox["c2"][2].type = "COPY_DETECTED"

\* C14: a send on an open socket does not throw; a send that failed is
\* reported later by the socket, through 'error' or an abrupt 'close'.  When
\* the last message sent to a connection was a publish and the socket reports
\* the failure, the connection leaves the registered set, every other
\* connection keeps its registration and the messages it was sent, and the
\* stored events, alerts and incidents stay as they are; and the ingestion
\* that published was answered with success.
C14_SendFailureDropsOnlyThatConnection ==
    [][/\ \A c \in DOMAIN sockets :
            (/\ inbox[c] # <<>>
             /\ inbox[c][Len(inbox[c])].type # "CONNECTED"
             /\ SocketError(c) \/ (sockets[c] = "OPEN" /\ Close(c))) =>
                /\ c \notin clients'
                /\ \A d \in DOMAIN sockets \ {c} :
                       /\ d \in clients' <=> d \in clients
                       /\ sockets'[d] = sockets[d]
                       /\ inbox'[d] = inbox[d]
                /\ events' = events /\ alerts' = alerts /\ incidents' = incidents
       /\ (\E c \in DOMAIN sockets :
               /\ inbox[c] # <<>>
               /\ Len(inbox'[c]) > Len(inbox[c])) =>
                /\ resp'.status = 200
                /\ GrewByOne(events, events')]_vars

\* A copy report was published to two monitors; the socket of one of them
\* then reported an error: it has left the registered set, the other is
\* still registered and has the message, and the event is stored.
C14_Witness ==
    /\ resp.op = "error"
    /\ sockets["c1"] = "CLOSING" /\ sockets["c2"] = "OPEN"
    /\ clients = {"c2"}
    /\ Len(events) = 1 /\ events[1].type = "copy_attempt"
    /\ Len(inbox["c1"]) = 2 /\ Len(inbox["c2"]) = 2
    /\ inbox["c1"][2].type = "COPY_DETECTED"
    /\ inbox["c2"][2] = inbox["c1"][2]

\* C15: each connection receives the published messages in the order the
\* server issued them.  Handlers run one at a time, each publishing about the
\* event it has just stored, first the event and then its findings: so what a
\* connection was sent only grows at its end, and its live messages are in
\* the order of their events' ids, an event's message before the message of
\* its findings.
C15_PublishOrderKept ==
    [][\A c \in DOMAIN sockets :
          /\ Len(inbox'[c]) >= Len(inbox[c])
          /\ SubSeq(inbox'[c], 1, Len(inbox[c])) = inbox[c]
          /\ \A i, j \in DOMAIN inbox'[c] :
                (/\ i < j
                 /\ inbox'[c][i].type # "CONNECTED"
                 /\ inbox'[c][j].type # "CONNECTED") =>
                    \/ inbox'[c][i].event.id < inbox'[c][j].event.id
                    \/ /\ inbox'[c][i].event.id = inbox'[c][j].event.id
                       /\ inbox'[c][i].type # "ANOMALY_DETECTED"
                       /\ inbox'[c][j].type = "ANOMALY_DETECTED"]_vars

\* A monitor was sent, after its bootstrap, the message of a document-open
\* report, the message of its finding, and the message of a later copy
\* report; a second monitor that subscribed in between has the last one.
C15_Witness ==
    /\ Len(inbox["c1"]) = 4
    /\ inbox["c1"][2].type = "DOCUMENT_OPENED" /\ inbox["c1"][2].event.id = 1
    /\ inbox["c1"][3].type = "ANOMALY_DETECTED" /\ inbox["c1"][3].event.id = 1
    /\ inbox["c1"][4].type = "COPY_DETECTED" /\ inbox["c1"][4].event.id = 2
    /\ Len(inbox["c2"]) = 2 /\ inbox["c2"][2] = inbox["c1"][4]

\* C16: the pixel endpoint answers every request with status 200 and the
\* image, whatever happened while the request was processed.
C16_PixelAlwaysAnswers200 ==
    resp.op = "pixel" => resp.status = 200

\* C17: once the event of an ingestion call is stored, the call is answered
\* with success, even if the alert write or the incident write that follows
\* fails.
C17_SuccessOnceEventStored ==
    [][Stored(EventTypes) => resp'.status = 200]_vars

\* The body of a report lacks documentId or recipientId.
LacksIds(req) == req.documentId = UNDEF \/ req.recipientId = UNDEF

\* C18: a structured report whose body lacks documentId or recipientId is
\* answered with a client error (a 4xx status, not the 500 of a failed
\* write), stores no event, alert or incident, and publishes nothing.
C18_MissingIdsAreClientErrors ==
    [][\A req \in StoreOpenRequests \cup StorePageViewRequests \cup StoreCopyRequests
                    \cup StoreAlertRequests \cup StoreForwardRequests :
          (/\ LacksIds(req)
           /\ \/ DocumentOpen(req) \/ PageView(req) \/ Copy(req)
              \/ Download(req) \/ PrintDoc(req) \/ Forward(req)) =>
              /\ resp'.status \in 400..499
              /\ UNCHANGED <<events, alerts, incidents, inbox>>]_vars

\* C19: the tracking summary of a document reports riskLevel CRITICAL if and
\* only if at least one incident is stored for that document and MEDIUM
\* otherwise, also for a document without any event; its incidents figure is
\* the number of stored incidents of that document.
C19_SummaryRiskLevel ==
    resp.op = "tracking-summary" =>
        LET stored == {i \in DOMAIN incidents : incidents[i].documentId = resp.arg}
        IN  /\ resp.summary.incidents = Cardinality(stored)
            /\ resp.summary.riskLevel = IF stored # {} THEN "CRITICAL" ELSE "MEDIUM"
            /\ resp.summary.totalEvents = 0 /\ stored = {} =>
                   resp.summary.riskLevel = "MEDIUM"

\* The summary of a document with one incident is CRITICAL while a second
\* document has an incident of its own and a forwarded event without one.
C19_Witness ==
    /\ resp.op = "tracking-summary" /\ resp.arg = "d1"
    /\ resp.summary.incidents = 1 /\ resp.summary.riskLevel = "CRITICAL"
    /\ Len(events) = 3 /\ Len(incidents) = 2
    /\ incidents[1].documentId = "d2" /\ incidents[2].documentId = "d1"
    /\ events[2].documentId = "d2" /\ events[2].type = "document_forwarded"

\* The stored events of document d1 other than pixel beacons and copies are,
\* in this order: one document_opened, five page_viewed, one
\* document_downloaded, one document_printed, one document_forwarded, all of
\* recipient r1.
ScenarioIngested ==
    LET core == SelectSeq(events, LAMBDA e :
                    /\ e.documentId = "d1"
                    /\ e.type \notin {"pixel_beacon", "copy_attempt"})
    IN  /\ [i \in DOMAIN core |-> core[i].type] =
               <<"document_opened", "page_viewed", "page_viewed", "page_viewed",
                 "page_viewed", "page_viewed", "document_downloaded",
                 "document_printed", "document_forwarded">>
        /\ \A i \in DOMAIN core : core[i].recipientId = "r1"

\* C20: after document_opened, five page_viewed, document_downloaded,
\* document_printed and document_forwarded were ingested for one document
\* and recipient on an initially empty store, the tracking summary of the
\* document shows incidents = 1 and riskLevel CRITICAL, and the alerts
\* listing holds, for that document, exactly one alert of severity high and
\* two of severity critical.
C20_ScenarioOutcome ==
    ScenarioIngested =>
        /\ (resp.op = "tracking-summary" /\ resp.arg = "d1") =>
              /\ resp.summary.incidents = 1
              /\ resp.summary.riskLevel = "CRITICAL"
        /\ resp.op = "alerts" =>
              LET mine == SelectSeq(resp.rows, LAMBDA a : a.documentId = "d1")
                  Of(sev) == {i \in DOMAIN mine : mine[i].severity = sev}
              IN  /\ Len(mine) = 3
                  /\ Cardinality(Of("high")) = 1
                  /\ Cardinality(Of("critical")) = 2

\* The whole run was ingested, with the pixel, the copy and the print of
\* another document in between, and the alerts were listed: four alerts,
\* three of them of the document.
C20_Witness ==
    /\ ScenarioIngested
    /\ Len(events) = 12 /\ Len(incidents) = 1
    /\ resp.op = "alerts" /\ resp.total = 4 /\ Len(resp.rows) = 4
    /\ \E i \in DOMAIN resp.rows : resp.rows[i].documentId = "d2"

\* C21: the alerts listing and the incidents listing each return their
\* records newest first and return at most 100 of them, however many are
\* stored: the rows are stored rows, each once, the 100 newest of them (or
\* all, if fewer are stored), newest first.
C21_ListingsNewestFirstCapped ==
    /\ resp.op = "alerts" =>
          LET rows == resp.rows
              ids == {rows[i].id : i \in DOMAIN rows}
          IN  /\ Len(rows) = IF Len(alerts) < 100 THEN Len(alerts) ELSE 100
              /\ Cardinality(ids) = Len(rows)
              /\ \A i \in DOMAIN rows : rows[i] = alerts[rows[i].id]
              /\ \A i \in DOMAIN rows :
                     i < Len(rows) => rows[i].createdAt >= rows[i + 1].createdAt
              /\ \A j \in DOMAIN alerts :
                     alerts[j].id \notin ids =>
                         rows[Len(rows)].createdAt >= alerts[j].createdAt
    /\ resp.op = "incidents" =>
          LET rows == resp.rows
              ids == {rows[i].id : i \in DOMAIN rows}
              When(r) == ParseISO(r.timestamp)
          IN  /\ Len(rows) = IF Len(incidents) < 100 THEN Len(incidents) ELSE 100
              /\ Cardinality(ids) = Len(rows)
              /\ \A i \in DOMAIN rows : rows[i] = incidents[rows[i].id]
              /\ \A i \in DOMAIN rows :
                     i < Len(rows) => ~Earlier(When(rows[i]), When(rows[i + 1]))
              /\ \A j \in DOMAIN incidents :
                     incidents[j].id \notin ids =>
                         ~Earlier(When(rows[Len(rows)]), When(incidents[j]))

\* C22: findings are advisory.  A request on which the anomaly rules are
\* evaluated stores its own event and nothing else: the alerts and the
\* incidents stay as they are, with or without findings; the findings are
\* sent to the open connections in one ANOMALY_DETECTED message after the
\* event's message, and without findings no such message is sent.
C22_FindingsOnlyBroadcast ==
    [][(Len(events') = Len(events) + 1 /\ resp'.checks = 1) =>
          /\ GrewByOne(events, events')
          /\ alerts' = alerts
          /\ incidents' = incidents
          /\ \A c \in DOMAIN sockets :
                sockets[c] = "OPEN" =>
                    LET last == inbox'[c][Len(inbox'[c])]
                    IN  IF resp'.anomalies # <<>>
                        THEN /\ Len(inbox'[c]) = Len(inbox[c]) + 2
                             /\ last.type = "ANOMALY_DETECTED"
                             /\ last.anomalies = resp'.anomalies
                        ELSE /\ Len(inbox'[c]) = Len(inbox[c]) + 1
                             /\ last.type = "DOCUMENT_OPENED"]_vars

\* A document-open report with a finding was ingested into a store that
\* holds the alert of a download, while a monitor was connected.
C22_Witness ==
    /\ resp.op = "document-open" /\ resp.anomalies # <<>>
    /\ Len(events) = 2 /\ events[1].type = "document_downloaded"
    /\ Len(alerts) = 1 /\ incidents = <<>>
    /\ sockets["c1"] = "OPEN"
    /\ inbox["c1"][Len(inbox["c1"])].type = "ANOMALY_DETECTED"

\* C23: every incident is created with status open, and no operation changes
\* or removes a stored incident or a stored alert: both tables only grow at
\* their end, and every incident's status stays open.
C23_IncidentsAndAlertsImmutable ==
    [][/\ Len(incidents') >= Len(incidents)
       /\ \A i \in DOMAIN incidents : incidents'[i] = incidents[i]
       /\ Len(alerts') >= Len(alerts)
       /\ \A i \in DOMAIN alerts : alerts'[i] = alerts[i]
       /\ \A i \in DOMAIN incidents' : incidents'[i].status = "open"]_vars

\* Two forwards were ingested and the incidents were listed: both incidents
\* are open, the first as it was stored.
C23_Witness ==
    /\ resp.op = "incidents" /\ Len(resp.rows) = 2
    /\ Len(incidents) = 2 /\ Len(alerts) = 2
    /\ incidents[1].status = "open" /\ incidents[1].id = 1
    /\ incidents[2].status = "open"
    /\ alerts[1].eventId = 1 /\ alerts[2].eventId = 2

\* C24: the registered set starts empty and changes only when a connection
\* subscribes (it joins) and when the close or the error handler of a
\* connection runs (it leaves, and is not registered afterwards); so the set
\* is at all times the connections that subscribed and have not closed or
\* errored, and every health report gives its size as the live-monitor count.
C24_HealthCountsLiveMonitors ==
    /\ clients = {}
    /\ [][/\ \A c \in DOMAIN sockets :
              /\ (sockets[c] = "NEW" /\ sockets'[c] = "OPEN") => c \in clients'
              /\ (sockets'[c] = "CLOSED" \/ SocketError(c)) => c \notin clients'
              /\ (c \in clients' /\ c \notin clients) =>
                     sockets[c] = "NEW" /\ sockets'[c] = "OPEN"
              /\ (c \in clients /\ c \notin clients') =>
                     /\ sockets'[c] # sockets[c]
                     /\ resp'.op \in {"close", "error"}
          /\ (resp'.op = "health" /\ resp' # resp) =>
                 resp'.stats.connectedAdmins = Cardinality(clients')]_vars

\* Two monitors subscribed, the socket of one reported an error and the other
\* is still connected: health reports one live monitor.
C24_Witness ==
    /\ resp.op = "health"
    /\ sockets["c1"] = "CLOSING" /\ sockets["c2"] = "OPEN"
    /\ inbox["c1"] # <<>> /\ inbox["c2"] # <<>>
    /\ clients = {"c2"}
    /\ resp.stats.connectedAdmins = 1

\* C25: the totalEvents reported by the events view and by the tracking
\* summary of a document is the number of stored events of that document.
C25_TotalEventsCountsStoredEvents ==
    resp.op \in {"document-events", "tracking-summary"} =>
        resp.summary.totalEvents =
            Cardinality({i \in DOMAIN events : events[i].documentId = resp.arg})

\* C26: an ingestion whose recipient has 3 or fewer distinct non-empty
\* locations in the stored history, or whose event is at a location the
\* recipient's earlier events already have, yields no UNUSUAL_LOCATION
\* finding.  (The history is taken both ways: the recipient's events stored
\* before this one, and the rows the detector reads, which include it.)
C26_NoUnusualLocationWithoutHistory ==
    JustIngested =>
        LET event == events[Len(events)]
            before == LocationsOf(EarlierOfRecipient)
            read == LocationsOf(RecipientEvents(events, event.recipientId))
        IN  (\/ Cardinality(before) <= 3
             \/ Cardinality(read) <= 3
             \/ event.location \in before) =>
                ~(\E i \in DOMAIN resp.anomalies :
                      resp.anomalies[i].type = "UNUSUAL_LOCATION")

\* The recipient has opened the document from four places and opens it again
\* from the first of them: the rules were evaluated and found nothing.
C26_Witness ==
    /\ JustIngested /\ resp.op = "document-open" /\ resp.checks = 1
    /\ Len(events) = 5
    /\ Cardinality(LocationsOf(EarlierOfRecipient)) = 4
    /\ events[5].location = events[1].location
    /\ resp.anomalies = <<>>

\* C27: a RAPID_ACCESS finding means that more than 5 events of the
\* recipient have their timestamp within the 60 seconds that end at the
\* evaluation time (the time of the evaluated event): events dated later
\* than that, or more than 60 seconds before it, are not counted.
C27_RapidAccessCountsTrailingMinute ==
    (JustIngested /\ resp.op = "document-open") =>
        LET event == events[Len(events)]
            window == SelectSeq(RecipientEvents(events, event.recipientId),
                        LAMBDA e : /\ e.timestamp.pfx = ""
                                   /\ e.timestamp.t >= event.timestamp.t - 60
                                   /\ e.timestamp.t <= event.timestamp.t)
        IN  HasFinding("RAPID_ACCESS", "high") => Len(window) > 5

\* C28: when a download, print or forward report has its event written and
\* the database then fails the alert write or the incident write, the event
\* is in the store after the handler (as is a forward's incident, when it
\* was the alert write that failed), no alert is stored, nothing is
\* published, and the caller is answered with an error (500).
C28_FailedFollowUpKeepsEvent ==
    [][\A req \in StoreAlertRequests \cup StoreForwardRequests :
          (/\ ~LacksIds(req)
           /\ \/ /\ req \in StoreAlertRequests /\ req.fault = "alert"
                 /\ Download(req) \/ PrintDoc(req)
              \/ /\ req \in StoreForwardRequests
                 /\ req.fault \in {"incident", "alert"}
                 /\ Forward(req)) =>
              /\ GrewByOne(events, events')
              /\ events'[Len(events')].documentId = req.documentId
              /\ events'[Len(events')].id = resp'.eventId
              /\ resp'.status = 500
              /\ alerts' = alerts
              /\ inbox' = inbox
              /\ IF resp'.op = "forward" /\ req.fault = "alert"
                 THEN GrewByOne(incidents, incidents')
                 ELSE incidents' = incidents]_vars

\* A forward report whose incident was written and whose alert write
\* failed: the event and the incident are stored, no alert is, and the
\* answer is an error.
C28_Witness ==
    /\ resp.op = "forward" /\ resp.status = 500
    /\ Len(events) = 1 /\ resp.eventId = events[1].id
    /\ events[1].type = "document_forwarded"
    /\ Len(incidents) = 1 /\ alerts = <<>>

\* C29: the event of a pixel request carries the epoch value of the
\* request's ts whenever the request has one, 0 included, and the ingestion
\* time when it has none; the event of any other request carries the
\* ingestion time, whatever ts the request has.
C29_PixelTimestampFromClient ==
    [][/\ \A req \in StampPixelRequests :
              (Pixel(req) /\ resp'.status = 200) =>
                  /\ GrewByOne(events, events')
                  /\ events'[Len(events')].timestamp =
                         IF req.ts.k = "num" THEN ToISOString(DateOf(req.ts.t))
                                             ELSE ToISOString(DateOf(now))
       /\ \A req \in StampCopyRequests :
              (Copy(req) /\ resp'.status = 200) =>
                  /\ GrewByOne(events, events')
                  /\ events'[Len(events')].timestamp = ToISOString(DateOf(now))]_vars

\* C30: a stored event has unauthorized set (1) if and only if its type is
\* document_forwarded; every other stored event has it 0.
C30_UnauthorizedIffForwarded ==
    \A i \in DOMAIN events :
        /\ events[i].unauthorized \in {0, 1}
        /\ events[i].unauthorized = 1 <=> events[i].type = "document_forwarded"

\* A download and a forward are stored: the forward event alone is
\* unauthorized.
C30_Witness ==
    /\ Len(events) = 2
    /\ events[1].type = "document_downloaded" /\ events[1].unauthorized = 0
    /\ events[2].type = "document_forwarded" /\ events[2].unauthorized = 1

\* C31: every stored alert's eventId is the id of a stored event that was
\* written no later than the alert and has the alert's documentId and
\* recipientId.
C31_AlertRefersToItsEvent ==
    \A a \in DOMAIN alerts :
        \E e \in DOMAIN events :
            /\ events[e].id = alerts[a].eventId
            /\ events[e].timestamp.t <= alerts[a].createdAt
            /\ events[e].documentId = alerts[a].documentId
            /\ events[e].recipientId = alerts[a].recipientId

\* A list of findings holds one of this type.
HasFindingIn(anomalies, type) ==
    \E i \in DOMAIN anomalies : anomalies[i].type = type

\* The number of rows of a table that have the documentId d and satisfy a
\* test on their type.
RowsOf(table, d, types) ==
    Cardinality({i \in DOMAIN table :
                    table[i].documentId = d /\ table[i].type \in types})

\* C32: with no write failing, in every state and for every document the
\* stored incidents are as many as the stored document_forwarded events, and
\* the stored alerts as many as the stored document_downloaded,
\* document_printed and document_forwarded events.
C32_CountsPerDocument ==
    \A d \in CountDocuments :
        /\ RowsOf(incidents, d, {"UNAUTHORIZED_FORWARDING"})
               = RowsOf(events, d, {"document_forwarded"})
        /\ RowsOf(alerts, d, {"HIGH_RISK_ACTION", "CRITICAL_ACTION", "UNAUTHORIZED_SHARE"})
               = RowsOf(events, d, {"document_downloaded", "document_printed",
                                    "document_forwarded"})

\* The records a message carries are rows of the tables.
CarriesStoredRecords(m, evs, als, incs) ==
    /\ m.event.id \in DOMAIN evs /\ evs[m.event.id] = m.event
    /\ m.type \in {"DOWNLOAD_ALERT", "CRITICAL_ALERT", "UNAUTHORIZED_SHARE_ALERT"} =>
           /\ m.alert.id \in DOMAIN als
           /\ als[m.alert.id] = AlertRow(m.alert, als[m.alert.id].createdAt)
    /\ m.type = "UNAUTHORIZED_SHARE_ALERT" =>
           /\ m.incident.id \in DOMAIN incs
           /\ incs[m.incident.id] = m.incident

\* C33: persist before publish, publish before the answer.  Every message a
\* handler sends to a monitor carries an event, and with it an alert and an
\* incident, that are in the store when the handler has sent it, also when a
\* write of that handler fails; and a handler that answers an ingestion with
\* success has stored its event and has sent each open connection a message
\* about it.
C33_PersistBeforePublish ==
    [][/\ \A c \in DOMAIN sockets :
              \A i \in (Len(inbox[c]) + 1)..Len(inbox'[c]) :
                  inbox'[c][i].type # "CONNECTED" =>
                      CarriesStoredRecords(inbox'[c][i], events', alerts', incidents')
       /\ (/\ resp'.status = 200 /\ resp' # resp
           /\ resp'.op \in {"pixel", "document-open", "page-view", "copy",
                            "download", "print", "forward"}) =>
              /\ GrewByOne(events, events')
              /\ events'[Len(events')].id = resp'.eventId
              /\ \A c \in DOMAIN sockets :
                     sockets[c] = "OPEN" =>
                         /\ Len(inbox'[c]) > Len(inbox[c])
                         /\ \A i \in (Len(inbox[c]) + 1)..Len(inbox'[c]) :
                                inbox'[c][i].event = events'[Len(events')]]_vars

\* A forward report was answered with success while a monitor was connected:
\* the monitor has its message, whose event, incident and alert are stored.
C33_Witness ==
    /\ resp.op = "forward" /\ resp.status = 200
    /\ sockets["c1"] = "OPEN"
    /\ Len(events) = 1 /\ Len(incidents) = 1 /\ Len(alerts) = 1
    /\ Len(inbox["c1"]) = 2
    /\ inbox["c1"][2].type = "UNAUTHORIZED_SHARE_ALERT"
    /\ inbox["c1"][2].event = events[1]
    /\ inbox["c1"][2].incident = incidents[1]
    /\ inbox["c1"][2].alert.id = alerts[1].id

\* C34: a handler runs from its write to its publish without any other
\* handler in between.  A step stores at most one event; every live message
\* sent in a step is about the event stored in that step, the newest of the
\* store, so a connection's live messages are in the order of insertion and,
\* while it is open, skip no event; and the rules evaluated for an event read
\* a history that holds that event and every event stored before it: the
\* rapid-access finding counts them all (the reports here are one
\* recipient's and come within one minute).
C34_HandlersDoNotInterleave ==
    [][/\ Len(events') <= Len(events) + 1
       /\ \A c \in DOMAIN sockets :
              LET sent == (Len(inbox[c]) + 1)..Len(inbox'[c])
                  live == {i \in DOMAIN inbox'[c] : inbox'[c][i].type # "CONNECTED"}
              IN  /\ \A i \in sent \cap live :
                         /\ GrewByOne(events, events')
                         /\ inbox'[c][i].event = events'[Len(events')]
                  /\ (sockets[c] = "OPEN" /\ Len(events') > Len(events)) =>
                         sent \cap live # {}
                  /\ \A i, j \in live :
                         i < j => inbox'[c][i].event.id <= inbox'[c][j].event.id
       /\ (resp'.checks = 1 /\ Len(events') > Len(events)) =>
              LET event == events'[Len(events')]
                  history == {k \in DOMAIN events' :
                                 /\ events'[k].recipientId = event.recipientId
                                 /\ events'[k].timestamp.t >= now - RapidWindow}
              IN  /\ Len(events') \in history
                  /\ DOMAIN events \subseteq history
                  /\ HasFindingIn(resp'.anomalies, "RAPID_ACCESS")
                         <=> Cardinality(history) > RapidMax]_vars

\* Five reports were ingested, a monitor subscribed, and the sixth, a
\* document-open, was published to it with the rapid-access finding.
C34_Witness ==
    /\ Len(events) = 6 /\ resp.op = "document-open"
    /\ resp.anomalies = <<[type |-> "RAPID_ACCESS", severity |-> "high"]>>
    /\ sockets["c1"] = "OPEN" /\ Len(inbox["c1"]) = 3
    /\ inbox["c1"][1].totalEvents = 5
    /\ inbox["c1"][2].type = "DOCUMENT_OPENED" /\ inbox["c1"][2].event = events[6]
    /\ inbox["c1"][3].type = "ANOMALY_DETECTED" /\ inbox["c1"][3].event = events[6]

\* The positions of the live messages about the event e that a connection
\* was sent, the messages about its findings left aside.
LiveAbout(c, e) ==
    {i \in DOMAIN inbox[c] :
        /\ inbox[c][i].type \notin {"CONNECTED", "ANOMALY_DETECTED"}
        /\ inbox[c][i].event.id = e}

\* C35: for a connection that is open, every stored event is either among
\* the events counted by the totals of its CONNECTED snapshot or was
\* published to it in one live message, and never both.
C35_NoEventLostAcrossBootstrap ==
    \A c \in DOMAIN sockets :
        sockets[c] = "OPEN" =>
            \A e \in DOMAIN events :
                IF e <= inbox[c][1].totalEvents
                THEN LiveAbout(c, e) = {}
                ELSE Cardinality(LiveAbout(c, e)) = 1

\* The last answer is the tracking summary of document d with this level.
Reported(d, level) ==
    /\ resp.op = "tracking-summary" /\ resp.arg = d
    /\ resp.summary.riskLevel = level

\* C36: once the tracking summary of a document has reported CRITICAL, no
\* later tracking summary of that document reports MEDIUM, whatever is
\* ingested in between.
C36_RiskLevelMonotone ==
    \A d \in {"d1", "d2", "d3"} :
        [](Reported(d, "CRITICAL") => []~Reported(d, "MEDIUM"))

\* The summary of d1 is CRITICAL after a forward of d1, a second forward of
\* d1 and a copy were ingested.
C36_Witness ==
    /\ Reported("d1", "CRITICAL") /\ resp.summary.incidents = 2
    /\ Len(events) = 3 /\ events[1].type = "document_forwarded"
    /\ events[3].type = "copy_attempt"

\* The step sent connection c something.
SentTo(c) == Len(inbox'[c]) > Len(inbox[c])

\* C37: the connections a publish is sent to are the registered set that
\* health counts: an ingestion answered with success sends to a connection
\* if and only if the connection is in the registered set.
C37_PublishSetIsRegistry ==
    [][Ingested(EventTypes) =>
          \A c \in DOMAIN sockets : SentTo(c) <=> c \in clients]_vars

\* C37, amended: an ingestion answered with success sends to a connection if
\* and only if the connection is registered and its socket is open; a
\* registered connection whose socket has begun to close is sent nothing, and
\* a connection that has left the registered set is sent nothing any more.
C37_PublishSetIsOpenRegistry ==
    [][/\ Ingested(EventTypes) =>
              \A c \in DOMAIN sockets :
                  SentTo(c) <=> (c \in clients /\ sockets[c] = "OPEN")
       /\ \A c \in DOMAIN sockets :
              (sockets[c] # "NEW" /\ c \notin clients) =>
                  /\ inbox'[c] = inbox[c]
                  /\ c \notin clients']_vars

\* Two monitors are registered, one of them closing: a copy report was
\* published to the other alone.
C37_Witness ==
    /\ resp.op = "copy" /\ resp.status = 200 /\ Len(events) = 1
    /\ clients = {"c1", "c2"}
    /\ sockets["c1"] = "CLOSING" /\ sockets["c2"] = "OPEN"
    /\ Len(inbox["c1"]) = 1
    /\ Len(inbox["c2"]) = 2 /\ inbox["c2"][2].type = "COPY_DETECTED"

\* C38: an ANOMALY_DETECTED message is sent only by an evaluation that
\* produced a finding; it carries all findings of that evaluation (the night
\* finding and the rapid-access finding, each when it applies) and the
\* evaluated event; on each connection it follows directly the
\* DOCUMENT_OPENED message of the same event, sent by the same handler, whose
\* answer comes with both messages sent.  An evaluation without finding
\* sends no such message.
C38_AnomalyMessageAfterOpenMessage ==
    [][\A c \in DOMAIN sockets :
          \A i \in (Len(inbox[c]) + 1)..Len(inbox'[c]) :
              LET m == inbox'[c][i]
              IN  m.type = "ANOMALY_DETECTED" =>
                      /\ m.anomalies # <<>>
                      /\ m.anomalies = resp'.anomalies
                      /\ HasFindingIn(m.anomalies, "UNUSUAL_TIME")
                             <=> \/ (now \div 3600) % 24 < NightEndHour
                                 \/ (now \div 3600) % 24 > NightStartHour
                      /\ HasFindingIn(m.anomalies, "RAPID_ACCESS")
                             <=> Len(events') > RapidMax
                      /\ GrewByOne(events, events')
                      /\ m.event = events'[Len(events')]
                      /\ i - 1 > Len(inbox[c])
                      /\ inbox'[c][i - 1].type = "DOCUMENT_OPENED"
                      /\ inbox'[c][i - 1].event = m.event
                      /\ i = Len(inbox'[c])
                      /\ resp'.op = "document-open" /\ resp'.status = 200
                      /\ resp'.eventId = m.event.id]_vars

\* The sixth report of a night, a document-open, was published to a monitor:
\* first its event, then its two findings in one message.
C38_Witness ==
    /\ Len(events) = 6 /\ resp.op = "document-open" /\ resp.status = 200
    /\ sockets["c1"] = "OPEN" /\ Len(inbox["c1"]) >= 3
    /\ LET n == Len(inbox["c1"])
       IN  /\ inbox["c1"][n - 1].type = "DOCUMENT_OPENED"
           /\ inbox["c1"][n - 1].event = events[6]
           /\ inbox["c1"][n].type = "ANOMALY_DETECTED"
           /\ inbox["c1"][n].event = events[6]
           /\ inbox["c1"][n].anomalies =
                  <<[type |-> "UNUSUAL_TIME", severity |-> "low"],
                    [type |-> "RAPID_ACCESS", severity |-> "high"]>>

====
